---- MODULE Spec2Model ----
(***************************************************************************)
(* Model of the authentication and account-linking layer of nextauth-app.  *)
(*                                                                         *)
(* The `users' collection is a function from store-assigned ids to         *)
(* documents.  Every request handler is split at its store operations:     *)
(* each `await' on the users collection is one atomic step, so that        *)
(* requests served concurrently interleave exactly where the code yields.  *)
(* Audit timestamps (createdAt, updatedAt, lastSignIn, deactivatedAt), the *)
(* per-document securityLog and avatar fields are not modelled.            *)
(***************************************************************************)
EXTENDS Integers, Sequences, FiniteSets, TLC

\* ---------------------------------------------------------------- bounds
MaxUsers == 4          \* documents the users collection may hold
MaxGroupIds == 2       \* group ids that may be minted
MaxDeleteReqs == 1     \* DELETE /api/user/complete-profile requests
MaxOAuthReqs == 1      \* OAuth signIn callbacks
MaxLinkCalls == 2      \* linkAccounts calls
MaxAuthReqs == 2       \* authorize calls
MaxPatchReqs == 1      \* PATCH /api/user/backup-codes requests
MaxPhoneReqs == 2      \* authorize calls of the phone provider
MaxVerifyReqs == 2     \* POST /api/auth/verify-phone requests
MaxRegenReqs == 1      \* POST /api/user/backup-codes requests
MaxOAuthPair == 2      \* OAuth signIn callbacks served at the same time
MaxSessionReqs == 2    \* requests of the browser session after its sign-in

\* ---------------------------------------------------------------- values
NoValue == "none"      \* an absent optional string field
NoGroup == 0           \* an absent groupId
NoUser == 0            \* no session / no document
NoPrincipal == << >>   \* no user object

\* e-mail addresses an OAuth provider may vouch for: one held by a document,
\* one differing from it in letter case only, one held by no document
OAuthEmails == {"a@x.com", "A@x.com", "c@x.com"}
OAuthProviders == {"google", "github"}

\* String.prototype.toLowerCase on the e-mail addresses of the model; this is
\* also the comparison key of a collation with locale "en", strength 2.
ToLowerCase(s) ==
  CASE s = "A@x.com" -> "a@x.com"
    [] OTHER -> s

VARIABLES
  users,        \* the users collection: id -> document
  nextGroupId,  \* the next group id to mint
  delReq,       \* DELETE /api/user/complete-profile requests
  oauthReq,     \* callbacks.signIn invocations for google / github
  linkCall,     \* the linkAccounts call that produced the current collection
  linkCount,    \* linkAccounts calls made so far
  authReq,      \* authorize calls of the credentials provider
  patchReq,     \* PATCH /api/user/backup-codes requests
  phoneReq,     \* authorize calls of the phone provider
  autoLink,     \* the last autoLinkIfConfident call
  jwtToken,     \* the JWT of the browser session
  session,      \* the session object built for the last request
  verifyReq,    \* POST /api/auth/verify-phone requests
  regenReq      \* POST /api/user/backup-codes requests

vars == <<users, nextGroupId, delReq, oauthReq, linkCall, linkCount,
          authReq, patchReq, phoneReq, autoLink, jwtToken, session,
          verifyReq, regenReq>>

sessionVars == <<jwtToken, session>>

routeVars == <<verifyReq, regenReq>>

identityVars == <<nextGroupId, delReq, oauthReq, linkCall, linkCount,
                  phoneReq, autoLink, sessionVars, routeVars>>


\* ------------------------------------------------------------- documents
NewUser(email, phone, password, source, providers) ==
  [ email |-> email,
    phoneNumber |-> phone,
    password |-> password,
    registerSource |-> source,
    twoFactorEnabled |-> FALSE,
    twoFactorSecret |-> NoValue,
    backupCodes |-> << >>,
    phoneVerified |-> FALSE,
    linkedEmails |-> IF email = NoValue THEN {} ELSE {email},
    linkedPhones |-> IF phone = NoValue THEN {} ELSE {phone},
    linkedProviders |-> providers,
    groupId |-> NoGroup,
    isMaster |-> FALSE,
    accountStatus |-> "active",
    isActive |-> TRUE ]

InitUsers ==
  1 :> NewUser("a@x.com", NoValue, "hash:pw", "credentials", << >>) @@
  2 :> NewUser("b@x.com", NoValue, NoValue, "google", <<"google">>) @@
  3 :> NewUser(NoValue, "+15551234567", NoValue, "phone", << >>)

\* [...new Set(arr)]: first occurrences, in order.
RECURSIVE Dedupe(_)
Dedupe(s) ==
  IF s = << >> THEN << >>
  ELSE LET init == Dedupe(SubSeq(s, 1, Len(s) - 1))
           last == s[Len(s)]
       IN IF \E i \in 1..Len(init) : init[i] = last THEN init
          ELSE Append(init, last)

SeqToSet(s) == { s[i] : i \in 1..Len(s) }

\* ----------------------------------------------------- store constraints
\* The email index without its collation: a binary comparison of the field.
UniqueEmailIdxBinary(us, email) ==
  email = NoValue \/
  \A i \in DOMAIN us : us[i].email # email

\* unique_email_idx: unique, sparse, collation {locale "en", strength 2}.
UniqueEmailIdxAllows(us, email) ==
  email = NoValue \/
  \A i \in DOMAIN us :
     us[i].email = NoValue \/ ToLowerCase(us[i].email) # ToLowerCase(email)

\* users.findOne({ email }): binary (case-sensitive) match on the field.
FindByEmailExact(us, email) ==
  { i \in DOMAIN us : us[i].email = email }

\* ------------------------------------------------------- group aggregate
GroupMembers(us, g) ==
  IF g = NoGroup THEN {} ELSE { i \in DOMAIN us : us[i].groupId = g }

ActiveMembers(us, g) ==
  { i \in GroupMembers(us, g) : us[i].accountStatus = "active" }

\* EnhancedAuthIntegration.getUserCompleteProfile(id): the document, the
\* accounts of its group (itself included) and the group summary; << >>
\* stands for null.
GetUserCompleteProfile(us, id) ==
  IF id \notin DOMAIN us THEN << >>
  ELSE << [ user |-> us[id],
            linkedAccounts |->
              { [ id |-> i, isActive |-> us[i].isActive,
                  isMaster |-> us[i].isMaster ] :
                  i \in GroupMembers(us, us[id].groupId) },
            groupInfo |->
              IF us[id].groupId = NoGroup THEN << >>
              ELSE << [ groupId |-> us[id].groupId,
                        isMaster |-> us[id].isMaster,
                        totalAccounts |->
                          Cardinality(GroupMembers(us, us[id].groupId)),
                        activeAccounts |->
                          Cardinality(ActiveMembers(us, us[id].groupId)) ] >> ] >>

\* ------------------------------------------------- linking / merge engine
\* The linked identifiers of the lowest-numbered member only.
UnionOfFirst(us, members, field) ==
  us[CHOOSE m \in members : \A n \in members : m <= n][field]

UnionOver(us, members, field) ==
  UNION { us[i][field] : i \in members }

RECURSIVE ConcatProviders(_, _)
ConcatProviders(us, members) ==
  IF members = {} THEN << >>
  ELSE LET i == CHOOSE m \in members : \A n \in members : m <= n
       IN us[i].linkedProviders \o ConcatProviders(us, members \ {i})

\* A group id choice that always mints.
MergeGroupIdFresh(us, ngid, primary, participants) == ngid

\* The group id a merge uses: the forced master's when it has one, else the
\* only one among the participants, else a freshly minted one.
MergeGroupId(us, ngid, primary, participants) ==
  LET gids == { us[i].groupId : i \in participants } \ {NoGroup}
  IN IF us[primary].groupId # NoGroup THEN us[primary].groupId
     ELSE IF Cardinality(gids) = 1 THEN CHOOSE g \in gids : TRUE
     ELSE ngid

\* A master flag that survives on whoever held it.
MasterFlagKept(us, i, primary) == us[i].isMaster \/ i = primary

\* The master flag of member i after a merge under the given master.
MasterFlag(us, i, primary) == i = primary

\* The merge proper: every member of every participant's group joins the
\* group of the primary, which becomes its only master, and all members take
\* the union of the linked identifiers.
MergeAccounts(us, ngid, primary, participants) ==
  LET gids == { us[i].groupId : i \in participants } \ {NoGroup}
      gid == MergeGroupId(us, ngid, primary, participants)
      members == participants \cup
                   { i \in DOMAIN us : us[i].groupId \in gids }
      emails == UnionOver(us, members, "linkedEmails")
      phones == UnionOver(us, members, "linkedPhones")
      providers == Dedupe(ConcatProviders(us, members))
  IN [ users |->
         [ i \in DOMAIN us |->
             IF i \in members
             THEN [ us[i] EXCEPT !.groupId = gid,
                                 !.isMaster = MasterFlag(us, i, primary),
                                 !.linkedEmails = emails,
                                 !.linkedPhones = phones,
                                 !.linkedProviders = providers ]
             ELSE us[i] ],
       nextGroupId |-> IF gid = ngid THEN ngid + 1 ELSE ngid,
       result |-> "Linked" ]

\* A linkAccounts that merges again when the ids already share a group.
LinkAccountsRemerge(us, ngid, primary, secs) ==
  LET participants == {primary} \cup secs
  IN IF \E i \in participants :
          i \notin DOMAIN us \/ us[i].accountStatus # "active"
     THEN [ users |-> us, nextGroupId |-> ngid, result |-> "CandidateNotFound" ]
     ELSE MergeAccounts(us, ngid, primary, participants)

\* linkAccounts(primaryUserId, secondaryUserIds): the merge, as one store
\* transaction.  The result carries the new collection and the outcome.
LinkAccounts(us, ngid, primary, secs) ==
  LET participants == {primary} \cup secs
  IN IF \E i \in participants :
          i \notin DOMAIN us \/ us[i].accountStatus # "active"
     THEN [ users |-> us, nextGroupId |-> ngid, result |-> "CandidateNotFound" ]
     ELSE IF /\ us[primary].groupId # NoGroup
             /\ \A i \in participants : us[i].groupId = us[primary].groupId
     THEN [ users |-> us, nextGroupId |-> ngid, result |-> "AlreadyLinked" ]
     ELSE MergeAccounts(us, ngid, primary, participants)

LinkSucceeded(result) == result \in {"Linked", "AlreadyLinked"}

NoLinkCall ==
  [ primary |-> NoUser, secs |-> {}, result |-> NoValue, repeated |-> FALSE ]

\* handleLinkAccounts(primaryUserId, secondaryUserIds) of the security and
\* account-linking pages: the confirmed link, then a profile refresh (a read).
HandleLinkAccounts(primary, secs) ==
  LET out == LinkAccounts(users, nextGroupId, primary, secs)
  IN /\ linkCount < MaxLinkCalls
     /\ out.nextGroupId <= MaxGroupIds + 1
     /\ linkCount' = linkCount + 1
     /\ users' = out.users
     /\ nextGroupId' = out.nextGroupId
     /\ linkCall' =
          [ primary |-> primary, secs |-> secs, result |-> out.result,
            repeated |-> /\ linkCall.primary = primary
                         /\ linkCall.secs = secs
                         /\ LinkSucceeded(linkCall.result) ]
     /\ UNCHANGED <<delReq, oauthReq, authReq, patchReq,
               phoneReq, autoLink, sessionVars, routeVars>>

\* ------------------------------------------------------- auto-linking
\* The confidence from which a candidate is linked without confirmation;
\* the candidate list shows the same band in green.
AutoLinkThreshold == 90

\* Confidences the matcher may report for a candidate.
Confidences == {10, 85, 90, 100}

\* The candidate lists the matcher may return for a subject: one or two
\* active documents other than the subject and outside its group, each with
\* a confidence.
CandidateLists(us, subject) ==
  LET others == { i \in DOMAIN us :
                    /\ i # subject
                    /\ us[i].accountStatus = "active"
                    /\ i \notin GroupMembers(us, us[subject].groupId) }
      all == { [ userId |-> i, confidence |-> c ] :
                 i \in others, c \in Confidences }
  IN { l \in SUBSET all :
         /\ Cardinality(l) \in {1, 2}
         /\ \A c \in l, d \in l : c.userId = d.userId => c = d }

\* The single best candidate: highest confidence, lowest id among equals.
BestCandidate(cands) ==
  CHOOSE c \in cands :
    \A d \in cands :
       \/ d.confidence < c.confidence
       \/ d.confidence = c.confidence /\ c.userId <= d.userId

\* The master of an automatic merge: an existing master of the subject's
\* or of the candidate's group is preserved; without one the subject
\* becomes master.
AutoLinkMaster(us, subject, candidate) ==
  LET own == { i \in GroupMembers(us, us[subject].groupId) : us[i].isMaster }
      theirs == { i \in GroupMembers(us, us[candidate].groupId) :
                    us[i].isMaster }
  IN IF own # {} THEN CHOOSE i \in own : \A j \in own : i <= j
     ELSE IF theirs # {} THEN CHOOSE i \in theirs : \A j \in theirs : i <= j
     ELSE subject

\* The candidates the account-linking dialog lists for confirmation: all it
\* was given, whatever their confidence.
ManualCandidates(cands) == cands

\* An autoLinkIfConfident that merges the best candidate whatever its
\* confidence.
AutoLinkAlways(us, ngid, subject, cands, minConfidence) ==
  LET best == BestCandidate(cands)
      out == MergeAccounts(us, ngid,
                           AutoLinkMaster(us, subject, best.userId),
                           {subject, best.userId})
  IN [ users |-> out.users, nextGroupId |-> out.nextGroupId,
       linked |-> TRUE ]

\* autoLinkIfConfident(subjectUserId, ..., minConfidence) on the candidate
\* list the matcher returned.
AutoLinkIfConfident(us, ngid, subject, cands, minConfidence) ==
  IF cands = {} \/ BestCandidate(cands).confidence < minConfidence
  THEN [ users |-> us, nextGroupId |-> ngid, linked |-> FALSE ]
  ELSE LET best == BestCandidate(cands)
           out == MergeAccounts(us, ngid,
                                AutoLinkMaster(us, subject, best.userId),
                                {subject, best.userId})
       IN [ users |-> out.users, nextGroupId |-> out.nextGroupId,
            linked |-> TRUE ]

NoAutoLink ==
  [ subject |-> NoUser, candidates |-> {}, minConfidence |-> 0,
    linked |-> FALSE, offered |-> {} ]

\* A sign-in of the subject followed by the auto-link evaluation; the
\* candidates stay on offer for manual confirmation.
AutoLinkEvaluate(subject, cands, minConfidence) ==
  LET out == AutoLinkIfConfident(users, nextGroupId, subject, cands,
                                 minConfidence)
  IN /\ linkCount < MaxLinkCalls
     /\ out.nextGroupId <= MaxGroupIds + 1
     /\ linkCount' = linkCount + 1
     /\ users' = out.users
     /\ nextGroupId' = out.nextGroupId
     /\ linkCall' = NoLinkCall
     /\ autoLink' = [ subject |-> subject, candidates |-> cands,
                      minConfidence |-> minConfidence,
                      linked |-> out.linked,
                      offered |-> ManualCandidates(cands) ]
     /\ UNCHANGED <<delReq, oauthReq, authReq, patchReq, phoneReq,
                  sessionVars, routeVars>>

\* ---------------------------------------------------- candidate matcher
\* What the matcher knows of a document beyond the fields of the model: its
\* display name, the e-mail addresses that passed proof-of-control, and the
\* OAuth provider account it was created from.
NameOf(i) ==
  CASE i \in {1, 4} -> "Ann Lee"
    [] i = 2 -> "ann lee"
    [] i = 3 -> "Bob Ray"
    [] OTHER -> NoValue

VerifiedEmails == {"b@x.com", "c@x.com"}

ProviderAccountOf(i) ==
  CASE i = 2 -> "google:b"
    [] i = 4 -> "github:c"
    [] OTHER -> NoValue

\* Case-insensitive comparison key of the names of the model.
NormalizeName(n) ==
  CASE n = "Ann Lee" -> "ann lee"
    [] n = "Bob Ray" -> "bob ray"
    [] OTHER -> n

\* The domain of the e-mail addresses of the model.
EmailDomain(e) ==
  CASE e \in {"a@x.com", "b@x.com", "c@x.com", "q@x.com"} -> "x.com"
    [] e = "q@y.org" -> "y.org"
    [] OTHER -> NoValue

NameWeight == 10
ConfidenceCap == 100

\* The attributes document i has in common with the query.
MatchedAttributes(us, i, q) ==
  { a \in {"email", "phone", "account", "name"} :
      \/ a = "email" /\ q.email # NoValue /\ us[i].email = q.email
      \/ a = "phone" /\ q.phone # NoValue /\ us[i].phoneNumber = q.phone
      \/ a = "account" /\ q.account # NoValue
                       /\ ProviderAccountOf(i) = q.account
      \/ a = "name" /\ q.name # NoValue
                    /\ NormalizeName(NameOf(i)) = NormalizeName(q.name) }

\* The weak signal that lets a name match count: overlapping e-mail domain.
WeakSignal(us, i, q) ==
  /\ q.email # NoValue
  /\ us[i].email # NoValue
  /\ EmailDomain(q.email) # NoValue
  /\ EmailDomain(q.email) = EmailDomain(us[i].email)

\* A matcher for which any attribute in common qualifies, the name included.
QualifiesByAny(us, i, q) == MatchedAttributes(us, i, q) # {}

\* email equals OR phone equals OR (name matches AND a weak signal matches)
Qualifies(us, i, q) ==
  LET m == MatchedAttributes(us, i, q)
  IN \/ "email" \in m
     \/ "phone" \in m
     \/ "name" \in m /\ WeakSignal(us, i, q)

\* What a matched attribute adds to the confidence: a verified e-mail 50, a
\* verified phone number 50, the provider account 60, the name 10.
Weight(us, i, a) ==
  CASE a = "email" -> IF us[i].email \in VerifiedEmails THEN 50 ELSE 0
    [] a = "phone" -> IF us[i].phoneVerified THEN 50 ELSE 0
    [] a = "account" -> 60
    [] a = "name" -> NameWeight

\* Additive, capped at 100.
Confidence(us, i, matched) ==
  LET w(a) == IF a \in matched THEN Weight(us, i, a) ELSE 0
      sum == w("email") + w("phone") + w("account") + w("name")
  IN IF sum > ConfidenceCap THEN ConfidenceCap ELSE sum

\* findCandidates(email?, phone?, name?, excludeUserId): the active
\* documents other than the caller and outside its group that qualify, each
\* with its matched attributes and confidence.
FindCandidates(us, q, excludeUserId) ==
  { [ userId |-> i,
      confidence |-> Confidence(us, i, MatchedAttributes(us, i, q)),
      matched |-> MatchedAttributes(us, i, q) ] :
      i \in { j \in DOMAIN us :
                /\ j # excludeUserId
                /\ us[j].accountStatus = "active"
                /\ j \notin GroupMembers(us, us[excludeUserId].groupId)
                /\ Qualifies(us, j, q) } }

\* ------------------------------- DELETE /api/user/complete-profile
NoResponse == [ status |-> 0, requiresGroupTransfer |-> FALSE,
                linkedAccounts |-> {}, success |-> FALSE,
                groupOwnershipTransferred |-> FALSE ]

IdleDelete ==
  [ pc |-> "idle", uid |-> NoUser, transfer |-> FALSE, target |-> NoUser,
    resp |-> NoResponse ]

ErrorResponse(code) == [ NoResponse EXCEPT !.status = code ]

\* The active accounts of the profile, the caller's own included.
AllActiveAccounts(profile, uid) ==
  { a.id : a \in { b \in profile.linkedAccounts : b.isActive } }

\* The accounts the handler offers or picks from: active and not the caller.
OtherActiveAccounts(profile, uid) ==
  { a.id : a \in { b \in profile.linkedAccounts : b.isActive /\ b.id # uid } }

\* Session and body checks, the profile read and the master-with-linked-
\* accounts decision; no await on the users collection separates them.
DeleteRead(r, uid, confirmDelete, transfer) ==
  /\ delReq[r].pc = "idle"
  /\ LET profile == GetUserCompleteProfile(users, uid)
         reject(code) ==
           delReq' = [delReq EXCEPT ![r] =
                        [ IdleDelete EXCEPT !.pc = "done",
                                            !.resp = ErrorResponse(code) ]]
         proceed(pc, target) ==
           delReq' = [delReq EXCEPT ![r] =
                        [ pc |-> pc, uid |-> uid, transfer |-> transfer,
                          target |-> target, resp |-> NoResponse ]]
     IN IF uid = NoUser THEN reject(401)
        ELSE IF ~confirmDelete THEN reject(400)
        ELSE IF profile = << >> THEN reject(404)
        ELSE IF /\ profile[1].groupInfo # << >>
                /\ profile[1].groupInfo[1].isMaster
                /\ profile[1].groupInfo[1].activeAccounts > 1
        THEN IF ~transfer
             THEN delReq' = [delReq EXCEPT ![r] =
                    [ IdleDelete EXCEPT
                        !.pc = "done", !.uid = uid,
                        !.resp = [ status |-> 409,
                                   requiresGroupTransfer |-> TRUE,
                                   linkedAccounts |->
                                     OtherActiveAccounts(profile[1], uid),
                                   success |-> FALSE,
                                   groupOwnershipTransferred |-> FALSE ] ]]
             ELSE IF OtherActiveAccounts(profile[1], uid) = {}
                  THEN proceed("deactivate", NoUser)
                  ELSE \E t \in OtherActiveAccounts(profile[1], uid) :
                         proceed("promote", t)
        ELSE proceed("deactivate", NoUser)
  /\ UNCHANGED <<users, nextGroupId, oauthReq, linkCall, linkCount, authReq, patchReq,
               phoneReq, autoLink, sessionVars, routeVars>>

\* users.updateOne({_id: otherActiveAccount._id}, {$set: {isMaster: true}})
DeletePromote(r) ==
  /\ delReq[r].pc = "promote"
  /\ users' = [users EXCEPT ![delReq[r].target].isMaster = TRUE]
  /\ delReq' = [delReq EXCEPT ![r].pc = "deactivate"]
  /\ linkCall' = NoLinkCall
  /\ UNCHANGED <<nextGroupId, oauthReq, linkCount, authReq, patchReq,
               phoneReq, autoLink, sessionVars, routeVars>>

\* A soft delete that leaves isMaster as it was.
DeleteDeactivateKeepMaster(r) ==
  /\ delReq[r].pc = "deactivate"
  /\ delReq[r].uid \in DOMAIN users
  /\ users' = [users EXCEPT ![delReq[r].uid].accountStatus = "deactivated",
                            ![delReq[r].uid].isActive = FALSE]
  /\ delReq' = [delReq EXCEPT ![r] =
       [ IdleDelete EXCEPT
           !.pc = "done", !.uid = delReq[r].uid, !.target = delReq[r].target,
           !.resp = [ NoResponse EXCEPT
                        !.status = 200, !.success = TRUE,
                        !.groupOwnershipTransferred = delReq[r].transfer ] ]]
  /\ linkCall' = NoLinkCall
  /\ UNCHANGED <<nextGroupId, oauthReq, linkCount, authReq, patchReq,
               phoneReq, autoLink, sessionVars, routeVars>>

\* A soft delete written to every document of the caller's group.
DeleteDeactivateGroup(r) ==
  /\ delReq[r].pc = "deactivate"
  /\ delReq[r].uid \in DOMAIN users
  /\ users' = [ i \in DOMAIN users |->
                  IF i = delReq[r].uid \/
                     i \in GroupMembers(users, users[delReq[r].uid].groupId)
                  THEN [ users[i] EXCEPT !.accountStatus = "deactivated",
                                         !.isActive = FALSE,
                                         !.isMaster = FALSE ]
                  ELSE users[i] ]
  /\ delReq' = [delReq EXCEPT ![r] =
       [ IdleDelete EXCEPT
           !.pc = "done", !.uid = delReq[r].uid, !.target = delReq[r].target,
           !.resp = [ NoResponse EXCEPT
                        !.status = 200, !.success = TRUE,
                        !.groupOwnershipTransferred = delReq[r].transfer ] ]]
  /\ linkCall' = NoLinkCall
  /\ UNCHANGED <<nextGroupId, oauthReq, linkCount, authReq, patchReq,
               phoneReq, autoLink, sessionVars, routeVars>>

\* The soft delete of the caller's own document, then the response.
DeleteDeactivate(r) ==
  /\ delReq[r].pc = "deactivate"
  /\ LET uid == delReq[r].uid
     IN IF uid \in DOMAIN users
        THEN /\ users' = [users EXCEPT ![uid].accountStatus = "deactivated",
                                       ![uid].isActive = FALSE,
                                       ![uid].isMaster = FALSE]
             /\ delReq' = [delReq EXCEPT ![r] =
                  [ IdleDelete EXCEPT
                      !.pc = "done", !.uid = uid,
                      !.target = delReq[r].target,
                      !.resp = [ NoResponse EXCEPT
                                   !.status = 200, !.success = TRUE,
                                   !.groupOwnershipTransferred =
                                      delReq[r].transfer ] ]]
        ELSE /\ users' = users
             /\ delReq' = [delReq EXCEPT ![r] =
                  [ IdleDelete EXCEPT !.pc = "done",
                                      !.resp = ErrorResponse(404) ]]
  /\ linkCall' = NoLinkCall
  /\ UNCHANGED <<nextGroupId, oauthReq, linkCount, authReq, patchReq,
               phoneReq, autoLink, sessionVars, routeVars>>

\* --------------------------------- callbacks.signIn (google / github)
IdleOAuth ==
  [ pc |-> "idle", provider |-> NoValue, email |-> NoValue,
    existing |-> NoUser, providers |-> << >>, userId |-> NoUser,
    result |-> NoValue, principal |-> NoPrincipal ]

\* The fields the callback sets on the user object of an existing document:
\* user.groupId = existingUser.groupId, user.hasLinkedAccounts = true.
OAuthPrincipal(e, groupId) ==
  [ id |-> e, twoFactorEnabled |-> FALSE, groupId |-> groupId,
    hasLinkedAccounts |-> TRUE ]

\* The user object of a document the callback did not find: it sets neither
\* groupId nor hasLinkedAccounts.
NewOAuthPrincipal(id) ==
  [ id |-> id, twoFactorEnabled |-> FALSE, groupId |-> NoGroup,
    hasLinkedAccounts |-> FALSE ]

\* users.findOne({ email: user.email }) and the update it prepares from the
\* document it read.
OAuthFind(r, provider, email) ==
  /\ oauthReq[r].pc = "idle"
  /\ LET found == FindByEmailExact(users, email)
     IN IF found # {}
        THEN \E e \in found :
               oauthReq' = [oauthReq EXCEPT ![r] =
                 [ IdleOAuth EXCEPT
                     !.pc = "update", !.provider = provider, !.email = email,
                     !.existing = e,
                     !.providers =
                        Dedupe(Append(users[e].linkedProviders, provider)),
                     !.principal = << OAuthPrincipal(e, users[e].groupId) >> ]]
        ELSE oauthReq' = [oauthReq EXCEPT ![r] =
                 [ IdleOAuth EXCEPT !.pc = "create", !.provider = provider,
                                    !.email = email ]]
  /\ UNCHANGED <<users, nextGroupId, delReq, linkCall, linkCount, authReq, patchReq,
               phoneReq, autoLink, sessionVars, routeVars>>

\* users.updateOne({_id: existingUser._id}, {$set: updateData}); the
\* callback then signs the request in as the existing document.
OAuthUpdate(r) ==
  /\ oauthReq[r].pc = "update"
  /\ users' = [users EXCEPT
                 ![oauthReq[r].existing].linkedProviders = oauthReq[r].providers]
  /\ oauthReq' = [oauthReq EXCEPT ![r] =
       [ IdleOAuth EXCEPT !.pc = "done", !.provider = oauthReq[r].provider,
                          !.email = oauthReq[r].email,
                          !.userId = oauthReq[r].existing,
                          !.result = "signedIn",
                          !.principal = oauthReq[r].principal ]]
  /\ linkCall' = NoLinkCall
  /\ UNCHANGED <<nextGroupId, delReq, linkCount, authReq, patchReq,
               phoneReq, autoLink, sessionVars, routeVars>>

\* EnhancedAccountLinkingService.linkOAuthAccount: the insert of the document
\* of a new OAuth user, subject to the unique indexes of the collection.
LinkOAuthAccount(us, email, provider) ==
  IF UniqueEmailIdxAllows(us, email)
  THEN [ success |-> TRUE,
         users |-> us @@ (Cardinality(DOMAIN us) + 1 :>
                      NewUser(email, NoValue, NoValue, provider, <<provider>>)) ]
  ELSE [ success |-> FALSE, users |-> us ]

OAuthCreate(r) ==
  /\ oauthReq[r].pc = "create"
  /\ Cardinality(DOMAIN users) < MaxUsers
  /\ LET out == LinkOAuthAccount(users, oauthReq[r].email, oauthReq[r].provider)
     IN /\ users' = out.users
        /\ oauthReq' = [oauthReq EXCEPT ![r] =
             [ IdleOAuth EXCEPT
                 !.pc = "done", !.provider = oauthReq[r].provider,
                 !.email = oauthReq[r].email,
                 !.userId = IF out.success THEN Cardinality(DOMAIN users) + 1
                            ELSE NoUser,
                 !.result = IF out.success THEN "signedIn" ELSE "denied",
                 !.principal =
                    IF out.success
                    THEN << NewOAuthPrincipal(Cardinality(DOMAIN users) + 1) >>
                    ELSE NoPrincipal ]]
  /\ linkCall' = NoLinkCall
  /\ UNCHANGED <<nextGroupId, delReq, linkCount, authReq, patchReq,
               phoneReq, autoLink, sessionVars, routeVars>>

\* ------------------------ authOptions: callbacks.signIn, events.createUser
\* e-mail addresses an OAuth provider may vouch for in a sign-in served by
\* authOptions: of a password account, of an OAuth account, of no document
BasicOAuthEmails == {"a@x.com", "b@x.com", "c@x.com"}

\* callbacks.signIn of authOptions: users.findOne({ email: user.email }); the
\* callback prepares an update only for a document registered with
\* credentials that has a password, and otherwise returns true at once,
\* leaving user.id as it received it (userId stays NoUser).
AuthOptionsSignInFind(r, provider, email) ==
  /\ oauthReq[r].pc = "idle"
  /\ LET found == FindByEmailExact(users, email)
     IN IF found # {}
        THEN \E e \in found :
               IF users[e].registerSource = "credentials" /\
                  users[e].password # NoValue
               THEN oauthReq' = [oauthReq EXCEPT ![r] =
                      [ IdleOAuth EXCEPT
                          !.pc = "updateBasic", !.provider = provider,
                          !.email = email, !.existing = e,
                          !.providers =
                             Dedupe(Append(users[e].linkedProviders, provider)) ]]
               ELSE oauthReq' = [oauthReq EXCEPT ![r] =
                      [ IdleOAuth EXCEPT
                          !.pc = "done", !.provider = provider,
                          !.email = email, !.existing = e,
                          !.result = "signedIn" ]]
        ELSE oauthReq' = [oauthReq EXCEPT ![r] =
               [ IdleOAuth EXCEPT !.pc = "createBasic", !.provider = provider,
                                  !.email = email ]]
  /\ UNCHANGED <<users, nextGroupId, delReq, linkCall, linkCount, authReq, patchReq,
               phoneReq, autoLink, sessionVars, routeVars>>

\* users.updateOne({_id: existingUser._id}, {$set: {registerSource:
\* 'credentials', linkedProviders, ...}}); user.id = existingUser._id.
AuthOptionsSignInUpdate(r) ==
  /\ oauthReq[r].pc = "updateBasic"
  /\ users' = [users EXCEPT
                 ![oauthReq[r].existing].registerSource = "credentials",
                 ![oauthReq[r].existing].linkedProviders = oauthReq[r].providers]
  /\ oauthReq' = [oauthReq EXCEPT ![r] =
       [ IdleOAuth EXCEPT !.pc = "done", !.provider = oauthReq[r].provider,
                          !.email = oauthReq[r].email,
                          !.existing = oauthReq[r].existing,
                          !.userId = oauthReq[r].existing,
                          !.result = "signedIn" ]]
  /\ linkCall' = NoLinkCall
  /\ UNCHANGED <<nextGroupId, delReq, linkCount, authReq, patchReq,
               phoneReq, autoLink, sessionVars, routeVars>>

\* The adapter inserts the document of a user it did not find, subject to the
\* unique indexes, and events.createUser completes it: registerSource
\* 'oauth', linkedProviders [].
AuthOptionsCreateUser(r) ==
  /\ oauthReq[r].pc = "createBasic"
  /\ Cardinality(DOMAIN users) < MaxUsers
  /\ LET id == Cardinality(DOMAIN users) + 1
         ok == UniqueEmailIdxAllows(users, oauthReq[r].email)
     IN /\ users' = IF ok
                    THEN users @@ (id :> NewUser(oauthReq[r].email, NoValue,
                                                 NoValue, "oauth", << >>))
                    ELSE users
        /\ oauthReq' = [oauthReq EXCEPT ![r] =
             [ IdleOAuth EXCEPT
                 !.pc = "done", !.provider = oauthReq[r].provider,
                 !.email = oauthReq[r].email,
                 !.userId = IF ok THEN id ELSE NoUser,
                 !.result = IF ok THEN "signedIn" ELSE "denied" ]]
  /\ linkCall' = NoLinkCall
  /\ UNCHANGED <<nextGroupId, delReq, linkCount, authReq, patchReq,
               phoneReq, autoLink, sessionVars, routeVars>>

\* ------------------------------------ credentials provider: authorize
\* The current time-based one-time code of a two-factor secret.
TotpNow == "123456"

\* speakeasy.totp.verify({secret, token}): the token is the current code of
\* a secret that exists.
TotpVerify(secret, token) == secret # NoValue /\ token = TotpNow

\* String.prototype.toUpperCase on the second-factor codes of the model.
ToUpperCase(s) ==
  CASE s = "x1" -> "X1"
    [] s = "y2" -> "Y2"
    [] OTHER -> s

BcryptHash(password) ==
  CASE password = "pw" -> "hash:pw"
    [] OTHER -> "hash:other"

\* bcrypt.compare(plaintext, hash)
BcryptCompare(password, hash) == hash = BcryptHash(password)

\* EnhancedAuthIntegration.authenticateUserWithGroup({ email }): the active
\* document with that e-mail address, compared case-insensitively, and
\* whether its group has another member; << >> stands for null.
AuthenticateUserWithGroup(us, email) ==
  LET found == { i \in DOMAIN us :
                   /\ us[i].email # NoValue
                   /\ ToLowerCase(us[i].email) = ToLowerCase(email)
                   /\ us[i].accountStatus = "active" }
  IN IF found = {} THEN << >>
     ELSE LET i == CHOOSE j \in found : TRUE
          IN << [ id |-> i, user |-> us[i],
                  hasLinkedAccounts |->
                    Cardinality(GroupMembers(us, us[i].groupId)) > 1 ] >>

\* A call of authorize: its inputs, what it found on the document it read,
\* and what it hands to the caller (null, a thrown Error, or the user).
IdleAuth ==
  [ pc |-> "idle", options |-> "enhancedAuthOptions", uid |-> NoUser,
    password |-> NoValue, code |-> NoValue, sawCode |-> FALSE,
    ret |-> NoValue, message |-> NoValue,
    events |-> << >>, principal |-> NoPrincipal, storeReads |-> 0 ]

\* The call went to the users collection for the document it is about.
StoreRead(req) == [ req EXCEPT !.storeReads = @ + 1 ]

AuthNull(uid, password, reasons) ==
  [ IdleAuth EXCEPT !.pc = "done", !.uid = uid, !.password = password,
                    !.ret = "null", !.events = reasons ]

AuthThrow(req, message, reasons) ==
  [ req EXCEPT !.pc = "done", !.ret = "throw", !.message = message,
               !.events = reasons, !.principal = NoPrincipal ]

Principal(found) ==
  [ id |-> found.id,
    twoFactorEnabled |-> found.user.twoFactorEnabled,
    groupId |-> found.user.groupId,
    hasLinkedAccounts |-> found.hasLinkedAccounts ]

Includes(codes, value) == \E k \in 1..Len(codes) : codes[k] = value

\* enhancedAuthOptions, provider 'credentials': from the missing-field check
\* to the first write on the users collection.  Every decision is taken on
\* the document read by authenticateUserWithGroup, and so is the user object
\* returned in the end.
AuthorizeLookup(r, email, password, code) ==
  /\ authReq[r].pc = "idle"
  /\ LET auth == AuthenticateUserWithGroup(users, email)
         user == auth[1].user
         req == [ IdleAuth EXCEPT
                    !.uid = auth[1].id, !.password = password, !.code = code,
                    !.sawCode = code # NoValue /\
                                Includes(user.backupCodes, ToUpperCase(code)),
                    !.principal = << Principal(auth[1]) >> ]
     IN authReq' = [authReq EXCEPT ![r] =
          IF email = NoValue \/ password = NoValue
          THEN AuthNull(NoUser, NoValue, << >>)
          ELSE StoreRead(
          IF auth = << >>
          THEN AuthNull(NoUser, NoValue, <<"user_not_found">>)
          ELSE IF user.password = NoValue /\ user.registerSource # "credentials"
          THEN AuthThrow([req EXCEPT !.code = NoValue, !.sawCode = FALSE],
                         "registered with " \o user.registerSource,
                         <<"wrong_provider">>)
          ELSE IF user.password = NoValue
          THEN AuthNull(auth[1].id, password, <<"no_password">>)
          ELSE IF ~BcryptCompare(password, user.password)
          THEN AuthNull(auth[1].id, password, <<"invalid_password">>)
          ELSE IF user.twoFactorEnabled /\ user.twoFactorSecret # NoValue
          THEN IF code = NoValue
               THEN AuthThrow(req, "2FA_REQUIRED", << >>)
               ELSE IF TotpVerify(user.twoFactorSecret, code)
               THEN [ req EXCEPT !.pc = "activity" ]
               ELSE IF Includes(user.backupCodes, ToUpperCase(code))
               THEN [ req EXCEPT !.pc = "pull" ]
               ELSE AuthThrow(req, "Invalid 2FA code", << >>)
          ELSE [ req EXCEPT !.pc = "activity" ]) ]
  /\ UNCHANGED <<users, patchReq, identityVars>>

\* A $pull that removes nothing.
PullNothing(codes, value) == codes

\* $pull: every element equal to the value leaves the array.
Pull(codes, value) == SelectSeq(codes, LAMBDA c : c # value)

\* users.updateOne({_id: user._id}, {$pull: {backupCodes: code.toUpperCase()}})
AuthorizePull(r) ==
  /\ authReq[r].pc = "pull"
  /\ users' = [users EXCEPT ![authReq[r].uid].backupCodes =
                 Pull(@, ToUpperCase(authReq[r].code))]
  /\ authReq' = [authReq EXCEPT ![r].pc = "activity"]
  /\ UNCHANGED <<patchReq, identityVars>>

\* updateUserActivity, then the user object built from the document read.
AuthorizeReturn(r) ==
  /\ authReq[r].pc = "activity"
  /\ authReq' = [authReq EXCEPT ![r].pc = "done", ![r].ret = "user"]
  /\ UNCHANGED <<users, patchReq, identityVars>>

\* authOptions (lib/auth.ts), provider 'credentials': one exact-match read,
\* no second factor.
AuthOptionsAuthorize(r, email, password) ==
  /\ authReq[r].pc = "idle"
  /\ LET found == FindByEmailExact(users, email)
         i == CHOOSE j \in found : TRUE
         basic(req) == [ req EXCEPT !.options = "authOptions" ]
     IN authReq' = [authReq EXCEPT ![r] =
          IF email = NoValue \/ password = NoValue
          THEN basic(AuthNull(NoUser, NoValue, << >>))
          ELSE StoreRead(
          IF found = {} THEN basic(AuthNull(NoUser, NoValue, << >>))
          ELSE IF users[i].password = NoValue
                  /\ users[i].registerSource # "credentials"
          THEN basic(AuthThrow(
                       [IdleAuth EXCEPT !.uid = i, !.password = password],
                       "registered with " \o users[i].registerSource, << >>))
          ELSE IF users[i].password = NoValue
          THEN basic(AuthNull(i, password, << >>))
          ELSE IF ~BcryptCompare(password, users[i].password)
          THEN basic(AuthNull(i, password, << >>))
          ELSE basic([ IdleAuth EXCEPT
                         !.pc = "done", !.uid = i, !.password = password,
                         !.ret = "user",
                         !.principal =
                            << [ id |-> i, twoFactorEnabled |-> FALSE,
                                 groupId |-> NoGroup,
                                 hasLinkedAccounts |-> FALSE ] >> ])) ]
  /\ UNCHANGED <<users, patchReq, identityVars>>

\* ------------------------------------- PATCH /api/user/backup-codes
IdlePatch ==
  [ pc |-> "idle", uid |-> NoUser, code |-> NoValue, updated |-> << >>,
    status |-> 0 ]

IndexOf(codes, value) ==
  IF \E k \in 1..Len(codes) : codes[k] = value
  THEN CHOOSE k \in 1..Len(codes) :
         codes[k] = value /\ \A j \in 1..(k - 1) : codes[j] # value
  ELSE 0

\* splice(index, 1) on a copy of the array
Splice(codes, index) ==
  SubSeq(codes, 1, index - 1) \o SubSeq(codes, index + 1, Len(codes))

\* The body check, users.findOne({ email }) and the array the handler will
\* write back, computed from the document it read.
PatchRead(r, email, backupCode) ==
  /\ patchReq[r].pc = "idle"
  /\ LET found == FindByEmailExact(users, email)
         i == CHOOSE j \in found : TRUE
         index == IndexOf(users[i].backupCodes, ToUpperCase(backupCode))
     IN patchReq' = [patchReq EXCEPT ![r] =
          IF email = NoValue \/ backupCode = NoValue
          THEN [ IdlePatch EXCEPT !.pc = "done", !.status = 400 ]
          ELSE IF found = {}
          THEN [ IdlePatch EXCEPT !.pc = "done", !.status = 400 ]
          ELSE IF ~users[i].twoFactorEnabled
          THEN [ IdlePatch EXCEPT !.pc = "done", !.status = 400 ]
          ELSE IF index = 0
          THEN [ IdlePatch EXCEPT !.pc = "done", !.status = 400 ]
          ELSE [ IdlePatch EXCEPT
                   !.pc = "write", !.uid = i, !.code = backupCode,
                   !.updated = Splice(users[i].backupCodes, index) ] ]
  /\ UNCHANGED <<users, authReq, identityVars>>

\* users.updateOne({_id: user._id}, {$set: {backupCodes: updatedBackupCodes}})
PatchWrite(r) ==
  /\ patchReq[r].pc = "write"
  /\ users' = [users EXCEPT ![patchReq[r].uid].backupCodes = patchReq[r].updated]
  /\ patchReq' = [patchReq EXCEPT ![r].pc = "log"]
  /\ UNCHANGED <<authReq, identityVars>>

\* The securityLog push, then the 200 response.
PatchRespond(r) ==
  /\ patchReq[r].pc = "log"
  /\ patchReq' = [patchReq EXCEPT ![r].pc = "done", ![r].status = 200]
  /\ UNCHANGED <<users, authReq, identityVars>>

\* ------------------------------------------- phone provider: authorize
\* formatPhoneNumber(phoneNumber) with the default country code 'US', on the
\* phone numbers of the model.
FormatPhoneNumber(p) ==
  CASE p = "15551234567" -> "+15551234567"
    [] p = "5551234567" -> "+15551234567"
    [] OTHER -> p

\* What the code-verification service made of the code: it approved it,
\* rejected it, or the call failed (error, timeout).
VerifyOutcomes == {"approved", "rejected", "threw"}

\* verifyCode(phoneNumber, code) of lib/sms resolves to an object whose
\* success field tells whether the service approved the code; its callers
\* in lib/auth.ts and verify-phone/route.ts read that field.
VerifyCode(outcome) ==
  [ type |-> "object", success |-> (outcome = "approved") ]

\* ToBoolean of a JavaScript value: an object is truthy whatever it holds.
ToBoolean(v) ==
  CASE v.type = "object" -> TRUE
    [] v.type = "boolean" -> v.value
    [] OTHER -> FALSE

\* EnhancedAuthIntegration.authenticateUserWithGroup({ phoneNumber }): the
\* active document with that phone number; << >> stands for null.
AuthenticateUserWithGroupByPhone(us, phone) ==
  LET found == { i \in DOMAIN us :
                   /\ us[i].phoneNumber = phone
                   /\ us[i].accountStatus = "active" }
  IN IF found = {} THEN << >>
     ELSE LET i == CHOOSE j \in found : TRUE
          IN << [ id |-> i, user |-> us[i],
                  hasLinkedAccounts |->
                    Cardinality(GroupMembers(us, us[i].groupId)) > 1 ] >>

\* A call of the phone provider's authorize: its inputs, what the service
\* said about the code, and what the call hands to the caller.
IdlePhone ==
  [ pc |-> "idle", options |-> "enhancedAuthOptions", uid |-> NoUser,
    outcome |-> NoValue, ret |-> NoValue, message |-> NoValue,
    events |-> << >>, principal |-> NoPrincipal, storeReads |-> 0 ]

PhoneNull(reasons) ==
  [ IdlePhone EXCEPT !.pc = "done", !.ret = "null", !.events = reasons ]

PhoneThrow(req, message, reasons) ==
  [ req EXCEPT !.pc = "done", !.ret = "throw", !.message = message,
               !.events = reasons, !.principal = NoPrincipal ]

\* enhancedAuthOptions, provider 'phone': from the missing-field check to
\* updateUserActivity.  A verifyCode that throws rejects the call.
PhoneAuthorizeLookup(r, phoneNumber, code, outcome) ==
  /\ phoneReq[r].pc = "idle"
  /\ LET auth == AuthenticateUserWithGroupByPhone(
                    users, FormatPhoneNumber(phoneNumber))
         req == [ IdlePhone EXCEPT !.uid = auth[1].id, !.outcome = outcome,
                                   !.principal = << Principal(auth[1]) >> ]
     IN phoneReq' = [phoneReq EXCEPT ![r] =
          IF phoneNumber = NoValue \/ code = NoValue
          THEN PhoneNull(<< >>)
          ELSE StoreRead(
          IF auth = << >>
          THEN PhoneNull(<<"user_not_found">>)
          ELSE IF outcome = "threw"
          THEN PhoneThrow(req, "verifyCode failed", << >>)
          ELSE IF ~ToBoolean(VerifyCode(outcome))
          THEN PhoneThrow(req, "Invalid or expired login code",
                          <<"invalid_code">>)
          ELSE [ req EXCEPT !.pc = "activity" ]) ]
  /\ UNCHANGED <<users, nextGroupId, delReq, oauthReq, linkCall, linkCount,
                 authReq, patchReq, autoLink,
                 sessionVars, routeVars>>

\* authOptions (lib/auth.ts), provider 'phone'.
AuthOptionsPhoneAuthorize(r, phoneNumber, code, outcome) ==
  /\ phoneReq[r].pc = "idle"
  /\ LET auth == AuthenticateUserWithGroupByPhone(
                    users, FormatPhoneNumber(phoneNumber))
         req == [ IdlePhone EXCEPT !.options = "authOptions",
                                   !.uid = auth[1].id, !.outcome = outcome,
                                   !.principal = << Principal(auth[1]) >> ]
         basic(q) == [ q EXCEPT !.options = "authOptions" ]
     IN phoneReq' = [phoneReq EXCEPT ![r] =
          IF phoneNumber = NoValue \/ code = NoValue
          THEN basic(PhoneNull(<< >>))
          ELSE StoreRead(
          IF auth = << >>
          THEN basic(PhoneNull(<< >>))
          ELSE IF ~auth[1].user.phoneVerified
          THEN PhoneThrow([req EXCEPT !.outcome = NoValue],
                          "Phone number is not verified", << >>)
          ELSE IF outcome = "threw"
          THEN PhoneThrow(req, "verifyCode failed", << >>)
          ELSE IF ~VerifyCode(outcome).success
          THEN PhoneThrow(req, "Invalid or expired login code", << >>)
          ELSE [ req EXCEPT !.pc = "activity" ]) ]
  /\ UNCHANGED <<users, nextGroupId, delReq, oauthReq, linkCall, linkCount,
                 authReq, patchReq, autoLink,
                 sessionVars, routeVars>>

\* updateUserActivity, then the user object built from the document read.
PhoneReturn(r) ==
  /\ phoneReq[r].pc = "activity"
  /\ phoneReq' = [phoneReq EXCEPT ![r].pc = "done", ![r].ret = "user"]
  /\ UNCHANGED <<users, nextGroupId, delReq, oauthReq, linkCall, linkCount,
                 authReq, patchReq, autoLink,
                 sessionVars, routeVars>>

\* --------------------------------------- callbacks.jwt, callbacks.session
NoToken == [ sub |-> NoUser, groupId |-> NoGroup, hasLinkedAccounts |-> FALSE ]

\* seq numbers the requests the session object was built for.
NoSession ==
  [ id |-> NoUser, groupId |-> NoGroup, hasLinkedAccounts |-> FALSE,
    seq |-> 0 ]

\* callbacks.jwt({ token, user }): the user object is present on the call
\* that follows a sign-in only (<< >> stands for undefined); NextAuth sets
\* token.sub to user.id.
Jwt(token, user) ==
  IF user # << >>
  THEN [ sub |-> user[1].id, groupId |-> user[1].groupId,
         hasLinkedAccounts |-> user[1].hasLinkedAccounts ]
  ELSE token

\* callbacks.session({ session, token })
Session(token) ==
  [ id |-> token.sub, groupId |-> token.groupId,
    hasLinkedAccounts |-> token.hasLinkedAccounts, seq |-> 0 ]

\* The user objects the sign-ins completed so far handed to NextAuth.
SignedInUsers ==
  { authReq[r].principal : r \in { q \in (1..MaxAuthReqs) :
        authReq[q].pc = "done" /\ authReq[q].ret = "user" /\
        authReq[q].options = "enhancedAuthOptions" } }
  \cup { phoneReq[r].principal : r \in { q \in (1..MaxPhoneReqs) :
        phoneReq[q].pc = "done" /\ phoneReq[q].ret = "user" /\
        phoneReq[q].options = "enhancedAuthOptions" } }
  \cup { oauthReq[r].principal : r \in { q \in DOMAIN oauthReq :
        oauthReq[q].pc = "done" /\ oauthReq[q].result = "signedIn" /\
        oauthReq[q].principal # NoPrincipal } }

\* The jwt and session callbacks of the request that follows a sign-in.
SessionSignIn(user) ==
  /\ jwtToken = NoToken
  /\ user \in SignedInUsers
  /\ jwtToken' = Jwt(jwtToken, user)
  /\ session' = [ Session(jwtToken') EXCEPT !.seq = 0 ]
  /\ UNCHANGED <<users, nextGroupId, delReq, oauthReq, linkCall, linkCount,
                 authReq, patchReq, phoneReq, autoLink, routeVars>>

\* The jwt and session callbacks of a later request of the same browser.
SessionRequest ==
  /\ jwtToken # NoToken
  /\ session.seq < MaxSessionReqs
  /\ jwtToken' = Jwt(jwtToken, << >>)
  /\ session' = [ Session(jwtToken') EXCEPT !.seq = session.seq + 1 ]
  /\ UNCHANGED <<users, nextGroupId, delReq, oauthReq, linkCall, linkCount,
                 authReq, patchReq, phoneReq, autoLink, routeVars>>

\* ------------------------------------------ POST /api/auth/verify-phone
IdleVerify ==
  [ pc |-> "idle", phoneNumber |-> NoValue, outcome |-> NoValue,
    status |-> 0, storeReads |-> 0, storeWrites |-> 0 ]

\* Which check the deployment uses: Twilio Verify when
\* TWILIO_VERIFY_SERVICE_SID is set, the token system otherwise.
VerifyServices == {"twilio", "tokens"}

\* TokenManager.verifyToken(code, 'phone_verification', phoneNumber)
VerifyToken(outcome) == [ valid |-> (outcome = "approved") ]

\* A response sent after the number was looked up in the users collection.
VerifyDoneAfterLookup(code) ==
  [ IdleVerify EXCEPT !.pc = "done", !.status = code, !.storeReads = 1 ]

\* A response sent before the code check.
VerifyDone(code) == [ IdleVerify EXCEPT !.pc = "done", !.status = code ]

\* A code check that lets every code through.
VerifyPhoneUnchecked(r, phoneNumber, code, service, outcome) ==
  /\ verifyReq[r].pc = "idle"
  /\ verifyReq' = [verifyReq EXCEPT ![r] =
       IF phoneNumber = NoValue \/ code = NoValue THEN VerifyDone(400)
       ELSE [ IdleVerify EXCEPT !.pc = "update",
                                !.phoneNumber = phoneNumber,
                                !.outcome = outcome ] ]
  /\ UNCHANGED <<users, nextGroupId, delReq, oauthReq, linkCall, linkCount,
                 authReq, patchReq, phoneReq, autoLink, sessionVars, regenReq>>

\* The body check and the code check; a check that throws lands in the
\* catch block.
VerifyPhoneCheck(r, phoneNumber, code, service, outcome) ==
  /\ verifyReq[r].pc = "idle"
  /\ verifyReq' = [verifyReq EXCEPT ![r] =
       IF phoneNumber = NoValue \/ code = NoValue THEN VerifyDone(400)
       ELSE IF outcome = "threw"
       THEN [ VerifyDone(500) EXCEPT !.phoneNumber = phoneNumber,
                                     !.outcome = outcome ]
       ELSE IF \/ service = "twilio" /\ ~VerifyCode(outcome).success
               \/ service = "tokens" /\ ~VerifyToken(outcome).valid
       THEN [ VerifyDone(400) EXCEPT !.phoneNumber = phoneNumber,
                                     !.outcome = outcome ]
       ELSE [ IdleVerify EXCEPT !.pc = "update",
                                !.phoneNumber = phoneNumber,
                                !.outcome = outcome ] ]
  /\ UNCHANGED <<users, nextGroupId, delReq, oauthReq, linkCall, linkCount,
                 authReq, patchReq, phoneReq, autoLink, sessionVars, regenReq>>

\* users.updateOne({ phoneNumber }, {$set: {phoneVerified: true}}): one
\* document with that phoneNumber, if there is one; 404 on matchedCount 0.
VerifyPhoneUpdate(r) ==
  /\ verifyReq[r].pc = "update"
  /\ LET matched == { i \in DOMAIN users :
                        users[i].phoneNumber = verifyReq[r].phoneNumber }
     IN /\ IF matched = {} THEN users' = users
           ELSE \E i \in matched :
                  users' = [users EXCEPT ![i].phoneVerified = TRUE]
        /\ verifyReq' = [verifyReq EXCEPT ![r] =
             [ verifyReq[r] EXCEPT
                 !.pc = "done",
                 !.status = IF matched = {} THEN 404 ELSE 200,
                 !.storeWrites = 1 ]]
  /\ linkCall' = NoLinkCall
  /\ UNCHANGED <<nextGroupId, delReq, oauthReq, linkCount,
                 authReq, patchReq, phoneReq, autoLink, sessionVars, regenReq>>

\* The updateOne rejects (the store is down): catch, 500.
VerifyPhoneStoreFailure(r) ==
  /\ verifyReq[r].pc = "update"
  /\ verifyReq' = [verifyReq EXCEPT ![r] =
       [ verifyReq[r] EXCEPT !.pc = "done", !.status = 500 ]]
  /\ UNCHANGED <<users, nextGroupId, delReq, oauthReq, linkCall, linkCount,
                 authReq, patchReq, phoneReq, autoLink, sessionVars, regenReq>>

\* ------------------------------------------------ store failures in sign-in
\* callbacks.signIn: an awaited store call rejects; the catch block logs the
\* error and returns false.
OAuthStoreFailure(r) ==
  /\ oauthReq[r].pc \in {"update", "create"}
  /\ oauthReq' = [oauthReq EXCEPT ![r] =
       [ IdleOAuth EXCEPT !.pc = "done", !.provider = oauthReq[r].provider,
                          !.email = oauthReq[r].email,
                          !.result = "denied" ]]
  /\ UNCHANGED <<users, nextGroupId, delReq, linkCall, linkCount, authReq,
                 patchReq, phoneReq, autoLink, sessionVars, routeVars>>

\* ------------------------------------------ POST /api/user/backup-codes
IdleRegen ==
  [ pc |-> "idle", uid |-> NoUser, codes |-> << >>, status |-> 0 ]

\* Ten codes from crypto.randomBytes(4).toString('hex').toUpperCase(): codes
\* no earlier list holds.
NewBackupCodes ==
  <<"N0", "N1", "N2", "N3", "N4", "N5", "N6", "N7", "N8", "N9">>

RegenDone(code) == [ IdleRegen EXCEPT !.pc = "done", !.status = code ]

\* Session and body checks, users.findOne({_id}), the two-factor and
\* password checks, and the generation of the new list.
RegenRead(r, uid, password) ==
  /\ regenReq[r].pc = "idle"
  /\ regenReq' = [regenReq EXCEPT ![r] =
       IF uid = NoUser THEN RegenDone(401)
       ELSE IF password = NoValue THEN RegenDone(400)
       ELSE IF uid \notin DOMAIN users THEN RegenDone(404)
       ELSE IF ~users[uid].twoFactorEnabled THEN RegenDone(400)
       ELSE IF users[uid].password # NoValue /\
               ~BcryptCompare(password, users[uid].password)
       THEN RegenDone(400)
       ELSE [ IdleRegen EXCEPT !.pc = "write", !.uid = uid,
                               !.codes = NewBackupCodes ] ]
  /\ UNCHANGED <<users, nextGroupId, delReq, oauthReq, linkCall, linkCount,
                 authReq, patchReq, phoneReq, autoLink, sessionVars, verifyReq>>

\* users.updateOne({_id}, {$set: {backupCodes: newBackupCodes}}), the
\* securityLog entry and the response.
RegenWrite(r) ==
  /\ regenReq[r].pc = "write"
  /\ users' = [users EXCEPT ![regenReq[r].uid].backupCodes = regenReq[r].codes]
  /\ regenReq' = [regenReq EXCEPT ![r].pc = "done", ![r].status = 200]
  /\ UNCHANGED <<nextGroupId, delReq, oauthReq, linkCall, linkCount,
                 authReq, patchReq, phoneReq, autoLink, sessionVars, verifyReq>>

\* ---------------------------------------------------------- specification
Init ==
  /\ users = InitUsers
  /\ nextGroupId = 1
  /\ delReq = [r \in (1..MaxDeleteReqs) |-> IdleDelete]
  /\ oauthReq = [r \in (1..MaxOAuthReqs) |-> IdleOAuth]
  /\ linkCall = NoLinkCall
  /\ linkCount = 0
  /\ authReq = [r \in (1..MaxAuthReqs) |-> IdleAuth]
  /\ patchReq = [r \in (1..MaxPatchReqs) |-> IdlePatch]
  /\ phoneReq = [r \in (1..MaxPhoneReqs) |-> IdlePhone]
  /\ autoLink = NoAutoLink
  /\ jwtToken = NoToken
  /\ session = NoSession
  /\ verifyReq = [r \in (1..MaxVerifyReqs) |-> IdleVerify]
  /\ regenReq = [r \in (1..MaxRegenReqs) |-> IdleRegen]

\* Requests take the slots in the order they arrive: slot r is the r-th
\* request of its kind.
Arriving(reqs, r) ==
  reqs[r].pc = "idle" /\ \A q \in 1..(r - 1) : reqs[q].pc # "idle"

Link ==
  \E primary \in DOMAIN users, secs \in SUBSET (DOMAIN users) :
     /\ secs # {}
     /\ primary \notin secs
     /\ HandleLinkAccounts(primary, secs)

DeleteAccount ==
  \E r \in (1..MaxDeleteReqs) :
     \/ /\ Arriving(delReq, r)
        /\ \E uid \in DOMAIN users \cup {NoUser}, c \in BOOLEAN, t \in BOOLEAN :
              DeleteRead(r, uid, c, t)
     \/ DeletePromote(r)
     \/ DeleteDeactivate(r)

OAuthSignIn ==
  \E r \in (1..MaxOAuthReqs) :
     \/ /\ Arriving(oauthReq, r)
        /\ \E p \in OAuthProviders, e \in OAuthEmails : OAuthFind(r, p, e)
     \/ OAuthUpdate(r)
     \/ OAuthCreate(r)

Next == Link \/ DeleteAccount \/ OAuthSignIn

Spec == Init /\ [][Next]_vars

\* Linking and OAuth sign-in only.
SpecIdentity ==
  Init /\ [][ Link
             \/ OAuthSignIn ]_vars

\* Linking and deactivation only.
SpecDeactivate ==
  Init /\ [][ Link
             \/ DeleteAccount ]_vars

\* Linking and OAuth sign-in served by either configuration.
OAuthSignInBasic ==
  \E r \in (1..MaxOAuthReqs) :
     \/ /\ Arriving(oauthReq, r)
        /\ \E p \in OAuthProviders, e \in BasicOAuthEmails :
              AuthOptionsSignInFind(r, p, e)
     \/ AuthOptionsSignInUpdate(r)
     \/ AuthOptionsCreateUser(r)

SpecOAuth ==
  Init /\ [][ Link
             \/ OAuthSignIn
             \/ OAuthSignInBasic ]_vars

\* Two OAuth sign-ins served at the same time, by either configuration.

InitPair ==
  /\ users = InitUsers
  /\ nextGroupId = 1
  /\ delReq = [r \in (1..MaxDeleteReqs) |-> IdleDelete]
  /\ oauthReq = [r \in (1..MaxOAuthPair) |-> IdleOAuth]
  /\ linkCall = NoLinkCall
  /\ linkCount = 0
  /\ authReq = [r \in (1..MaxAuthReqs) |-> IdleAuth]
  /\ patchReq = [r \in (1..MaxPatchReqs) |-> IdlePatch]
  /\ phoneReq = [r \in (1..MaxPhoneReqs) |-> IdlePhone]
  /\ autoLink = NoAutoLink
  /\ jwtToken = NoToken
  /\ session = NoSession
  /\ verifyReq = [r \in (1..MaxVerifyReqs) |-> IdleVerify]
  /\ regenReq = [r \in (1..MaxRegenReqs) |-> IdleRegen]

OAuthSignInPair ==
  \E r \in (1..MaxOAuthPair) :
     \/ /\ Arriving(oauthReq, r)
        /\ \E p \in OAuthProviders, e \in OAuthEmails : OAuthFind(r, p, e)
     \/ OAuthUpdate(r)
     \/ OAuthCreate(r)

OAuthSignInBasicPair ==
  \E r \in (1..MaxOAuthPair) :
     \/ /\ Arriving(oauthReq, r)
        /\ \E p \in OAuthProviders, e \in BasicOAuthEmails :
              AuthOptionsSignInFind(r, p, e)
     \/ AuthOptionsSignInUpdate(r)
     \/ AuthOptionsCreateUser(r)

SpecPair ==
  InitPair /\ [][ OAuthSignInPair
                 \/ OAuthSignInBasicPair ]_vars

\* Sign-ins of the three kinds served by enhancedAuthOptions, link calls,
\* and the requests of one browser session.
SessionPasswordSignIn ==
  \/ AuthorizeLookup(1, "a@x.com", "pw", NoValue)
  \/ AuthorizeReturn(1)

SessionPhoneSignIn ==
  \/ PhoneAuthorizeLookup(1, "+15551234567", "111111", "approved")
  \/ PhoneReturn(1)

SessionCallbacks ==
  \/ \E user \in SignedInUsers : SessionSignIn(user)
  \/ SessionRequest

SpecSession ==
  Init /\ [][ Link
             \/ OAuthSignIn
             \/ SessionPasswordSignIn
             \/ SessionPhoneSignIn
             \/ SessionCallbacks ]_vars

\* ------------------------------------------- two-factor specification
\* The documents the sign-in attempts meet.  twoFactorEnabled and
\* twoFactorSecret are separate optional fields (authorize reports both,
\* enhanced-auth.ts 100-101), so document 3 carries the flag without a
\* secret.
TwoFactorUsers ==
  1 :> [ NewUser("a@x.com", NoValue, "hash:pw", "credentials", << >>) EXCEPT
           !.twoFactorEnabled = TRUE, !.twoFactorSecret = "SECRET",
           !.backupCodes = <<"X1", "Y2", "Z3">> ] @@
  2 :> NewUser("b@x.com", NoValue, NoValue, "google", <<"google">>) @@
  3 :> [ NewUser("d@x.com", NoValue, "hash:pw", "credentials", << >>) EXCEPT
           !.twoFactorEnabled = TRUE, !.backupCodes = <<"X1">> ] @@
  4 :> NewUser("e@x.com", NoValue, "hash:pw", "credentials", << >>) @@
  5 :> NewUser("f@x.com", NoValue, NoValue, "credentials", << >>)

SignInEmails ==
  {"a@x.com", "A@x.com", "b@x.com", "d@x.com", "e@x.com", "f@x.com", "z@x.com"}

SecondFactors == {NoValue, TotpNow, "X1", "x1", "000000"}

\* The credentials a caller may submit: a required field missing, a wrong
\* password (the code is then never looked at), or the right password with
\* any second factor.
SignInAttempts ==
  { [ email |-> NoValue, password |-> "pw", code |-> NoValue ],
    [ email |-> "a@x.com", password |-> NoValue, code |-> NoValue ] }
  \cup [ email : SignInEmails, password : {"guess"}, code : {NoValue} ]
  \cup [ email : SignInEmails, password : {"pw"}, code : SecondFactors ]

PatchEmails == {NoValue, "a@x.com", "A@x.com", "e@x.com"}

PatchCodes == {NoValue, "X1", "y2", "000000"}

InitTwoFactor ==
  /\ users = TwoFactorUsers
  /\ nextGroupId = 1
  /\ delReq = [r \in (1..MaxDeleteReqs) |-> IdleDelete]
  /\ oauthReq = [r \in (1..MaxOAuthReqs) |-> IdleOAuth]
  /\ linkCall = NoLinkCall
  /\ linkCount = 0
  /\ authReq = [r \in (1..MaxAuthReqs) |-> IdleAuth]
  /\ patchReq = [r \in (1..MaxPatchReqs) |-> IdlePatch]
  /\ phoneReq = [r \in (1..MaxPhoneReqs) |-> IdlePhone]
  /\ autoLink = NoAutoLink
  /\ jwtToken = NoToken
  /\ session = NoSession
  /\ verifyReq = [r \in (1..MaxVerifyReqs) |-> IdleVerify]
  /\ regenReq = [r \in (1..MaxRegenReqs) |-> IdleRegen]

Authorize ==
  \E r \in (1..MaxAuthReqs) :
     \/ /\ Arriving(authReq, r)
        /\ \E a \in SignInAttempts :
              AuthorizeLookup(r, a.email, a.password, a.code)
     \/ AuthorizePull(r)
     \/ AuthorizeReturn(r)

AuthorizeBasic ==
  \E r \in (1..MaxAuthReqs), a \in { b \in SignInAttempts : b.code = NoValue } :
     Arriving(authReq, r) /\ AuthOptionsAuthorize(r, a.email, a.password)

UseBackupCode ==
  \E r \in (1..MaxPatchReqs) :
     \/ /\ Arriving(patchReq, r)
        /\ \E e \in PatchEmails, c \in PatchCodes : PatchRead(r, e, c)
     \/ PatchWrite(r)
     \/ PatchRespond(r)

SpecTwoFactor ==
  InitTwoFactor /\ [][ Authorize
                      \/ AuthorizeBasic
                      \/ UseBackupCode ]_vars

\* The session's user id (none without a session, 6 for a document that is
\* gone) and the password of the body.
Regenerate ==
  \E r \in (1..MaxRegenReqs) :
     \/ /\ Arriving(regenReq, r)
        /\ \E uid \in {NoUser, 1, 4, 6}, password \in {NoValue, "pw", "guess"} :
              RegenRead(r, uid, password)
     \/ RegenWrite(r)

\* Regeneration of the backup codes next to the requests and sign-ins that
\* use one.
SpecRegen ==
  InitTwoFactor /\ [][ Regenerate
                      \/ UseBackupCode
                      \/ Authorize ]_vars

\* ------------------------------------------------ linking specification
\* Four documents, the first two already linked with document 1 as master.
LinkingUsers ==
  MergeAccounts(
    InitUsers @@ (4 :> NewUser("c@x.com", NoValue, NoValue, "github",
                               <<"github">>)),
    1, 1, {1, 2}).users

InitLinking ==
  /\ users = LinkingUsers
  /\ nextGroupId = 2
  /\ delReq = [r \in (1..MaxDeleteReqs) |-> IdleDelete]
  /\ oauthReq = [r \in (1..MaxOAuthReqs) |-> IdleOAuth]
  /\ linkCall = NoLinkCall
  /\ linkCount = 0
  /\ authReq = [r \in (1..MaxAuthReqs) |-> IdleAuth]
  /\ patchReq = [r \in (1..MaxPatchReqs) |-> IdlePatch]
  /\ phoneReq = [r \in (1..MaxPhoneReqs) |-> IdlePhone]
  /\ autoLink = NoAutoLink
  /\ jwtToken = NoToken
  /\ session = NoSession
  /\ verifyReq = [r \in (1..MaxVerifyReqs) |-> IdleVerify]
  /\ regenReq = [r \in (1..MaxRegenReqs) |-> IdleRegen]

AutoLink ==
  \E subject \in DOMAIN users :
     \E cands \in CandidateLists(users, subject) :
        AutoLinkEvaluate(subject, cands, AutoLinkThreshold)

\* Confirmed and automatic links.
SpecLinking ==
  InitLinking /\ [][ Link
                    \/ AutoLink ]_vars

\* Document 4 also holds a verified phone number, document 3's is verified.
MatcherUsers ==
  [ LinkingUsers EXCEPT ![3].phoneVerified = TRUE,
                        ![4].phoneNumber = "+15557654321",
                        ![4].phoneVerified = TRUE ]

\* What a sign-in or registration hands to the matcher.
Queries ==
  { [ email |-> e, phone |-> p, name |-> n, account |-> a ] :
      e \in {NoValue, "c@x.com", "q@x.com", "q@y.org"},
      p \in {NoValue, "+15557654321"},
      n \in {NoValue, "Ann Lee"},
      a \in {NoValue, "github:c"} }

InitMatcher ==
  /\ users = MatcherUsers
  /\ nextGroupId = 2
  /\ delReq = [r \in (1..MaxDeleteReqs) |-> IdleDelete]
  /\ oauthReq = [r \in (1..MaxOAuthReqs) |-> IdleOAuth]
  /\ linkCall = NoLinkCall
  /\ linkCount = 0
  /\ authReq = [r \in (1..MaxAuthReqs) |-> IdleAuth]
  /\ patchReq = [r \in (1..MaxPatchReqs) |-> IdlePatch]
  /\ phoneReq = [r \in (1..MaxPhoneReqs) |-> IdlePhone]
  /\ autoLink = NoAutoLink
  /\ jwtToken = NoToken
  /\ session = NoSession
  /\ verifyReq = [r \in (1..MaxVerifyReqs) |-> IdleVerify]
  /\ regenReq = [r \in (1..MaxRegenReqs) |-> IdleRegen]

\* autoLinkIfConfident runs the matcher and decides on what it returned.
AutoLinkMatched ==
  \E subject \in DOMAIN users, q \in Queries :
     AutoLinkEvaluate(subject, FindCandidates(users, q, subject),
                      AutoLinkThreshold)

\* Confirmed links and automatic links on the matcher's candidates.
SpecMatcher ==
  InitMatcher /\ [][ Link
                    \/ AutoLinkMatched ]_vars

\* -------------------------------------------------- phone specification
\* Phone documents: one whose number was verified, one whose number never
\* was.
PhoneUsers ==
  1 :> [ NewUser(NoValue, "+15551234567", NoValue, "phone", << >>)
           EXCEPT !.phoneVerified = TRUE ] @@
  2 :> NewUser(NoValue, "+15559999999", NoValue, "phone", << >>)

\* Phone numbers presented: the verified one in three spellings, the
\* unverified one, one held by no document, none.
PhoneNumbers ==
  { NoValue, "+15551234567", "15551234567", "5551234567", "+15559999999",
    "+15550000000" }

PhoneCodes == {NoValue, "111111"}

InitPhone ==
  /\ users = PhoneUsers
  /\ nextGroupId = 1
  /\ delReq = [r \in (1..MaxDeleteReqs) |-> IdleDelete]
  /\ oauthReq = [r \in (1..MaxOAuthReqs) |-> IdleOAuth]
  /\ linkCall = NoLinkCall
  /\ linkCount = 0
  /\ authReq = [r \in (1..MaxAuthReqs) |-> IdleAuth]
  /\ patchReq = [r \in (1..MaxPatchReqs) |-> IdlePatch]
  /\ phoneReq = [r \in (1..MaxPhoneReqs) |-> IdlePhone]
  /\ autoLink = NoAutoLink
  /\ jwtToken = NoToken
  /\ session = NoSession
  /\ verifyReq = [r \in (1..MaxVerifyReqs) |-> IdleVerify]
  /\ regenReq = [r \in (1..MaxRegenReqs) |-> IdleRegen]

PhoneSignIn ==
  \E r \in (1..MaxPhoneReqs) :
     \/ /\ Arriving(phoneReq, r)
        /\ \E p \in PhoneNumbers, c \in PhoneCodes, o \in VerifyOutcomes :
              PhoneAuthorizeLookup(r, p, c, o)
     \/ PhoneReturn(r)

PhoneSignInBasic ==
  \E r \in (1..MaxPhoneReqs) :
     /\ Arriving(phoneReq, r)
     /\ \E p \in PhoneNumbers, c \in PhoneCodes, o \in VerifyOutcomes :
           AuthOptionsPhoneAuthorize(r, p, c, o)

\* Sign-in attempts by phone number and one-time code.
SpecPhone ==
  InitPhone /\ [][ PhoneSignIn
                  \/ PhoneSignInBasic ]_vars

\* ----------------------------------------------- password specification
\* Documents by registration origin: password, Google, phone, and the
\* 'oauth' that the createUser event of authOptions writes.
PasswordUsers ==
  1 :> NewUser("a@x.com", NoValue, "hash:pw", "credentials", << >>) @@
  2 :> NewUser("b@x.com", NoValue, NoValue, "google", <<"google">>) @@
  3 :> NewUser("g@x.com", "+15551234567", NoValue, "phone", << >>) @@
  4 :> NewUser("h@x.com", NoValue, NoValue, "oauth", << >>)

PasswordAttempts ==
  { [ email |-> e, password |-> "pw" ] :
      e \in {NoValue, "a@x.com", "b@x.com", "g@x.com", "h@x.com", "z@x.com"} }
  \cup { [ email |-> "a@x.com", password |-> "bad" ] }

InitPassword ==
  /\ users = PasswordUsers
  /\ nextGroupId = 1
  /\ delReq = [r \in (1..MaxDeleteReqs) |-> IdleDelete]
  /\ oauthReq = [r \in (1..MaxOAuthReqs) |-> IdleOAuth]
  /\ linkCall = NoLinkCall
  /\ linkCount = 0
  /\ authReq = [r \in (1..MaxAuthReqs) |-> IdleAuth]
  /\ patchReq = [r \in (1..MaxPatchReqs) |-> IdlePatch]
  /\ phoneReq = [r \in (1..MaxPhoneReqs) |-> IdlePhone]
  /\ autoLink = NoAutoLink
  /\ jwtToken = NoToken
  /\ session = NoSession
  /\ verifyReq = [r \in (1..MaxVerifyReqs) |-> IdleVerify]
  /\ regenReq = [r \in (1..MaxRegenReqs) |-> IdleRegen]

PasswordSignIn ==
  \E r \in (1..MaxAuthReqs) :
     \/ /\ Arriving(authReq, r)
        /\ \E a \in PasswordAttempts :
              AuthorizeLookup(r, a.email, a.password, NoValue)
     \/ AuthorizeReturn(r)

PasswordSignInBasic ==
  \E r \in (1..MaxAuthReqs), a \in PasswordAttempts :
     Arriving(authReq, r) /\ AuthOptionsAuthorize(r, a.email, a.password)

\* DELETE with confirmDelete by a signed-in user.
Deactivate ==
  \E r \in (1..MaxDeleteReqs) :
     \/ /\ Arriving(delReq, r)
        /\ \E uid \in DOMAIN users : DeleteRead(r, uid, TRUE, FALSE)
     \/ DeleteDeactivate(r)

\* Password sign-in attempts and account deactivation.
SpecPassword ==
  InitPassword /\ [][ PasswordSignIn
                     \/ PasswordSignInBasic
                     \/ Deactivate ]_vars

\* Phone numbers and codes a verify-phone request may carry: the number of
\* document 3, a number of no document, none.
VerifyNumbers == {NoValue, "+15551234567", "+15550000000"}

VerifyPhone ==
  \E r \in (1..MaxVerifyReqs) :
     \/ /\ Arriving(verifyReq, r)
        /\ \E p \in VerifyNumbers, c \in PhoneCodes, v \in VerifyServices,
              o \in VerifyOutcomes : VerifyPhoneCheck(r, p, c, v, o)
     \/ VerifyPhoneUpdate(r)

\* Credentials a sign-in may carry, with and without each field.
InputEmails == {NoValue, "a@x.com"}

InputPasswords == {NoValue, "pw"}

InputPhones == {NoValue, "+15551234567"}

InputPasswordSignIn ==
  \E r \in (1..MaxAuthReqs) :
     \/ /\ Arriving(authReq, r)
        /\ \E e \in InputEmails, p \in InputPasswords :
              AuthorizeLookup(r, e, p, NoValue)
     \/ AuthorizeReturn(r)

InputPhoneSignIn ==
  \E r \in (1..MaxPhoneReqs) :
     \/ /\ Arriving(phoneReq, r)
        /\ \E p \in InputPhones, c \in PhoneCodes :
              PhoneAuthorizeLookup(r, p, c, "approved")
     \/ PhoneReturn(r)

\* Sign-in attempts and verify-phone requests, with and without their
\* required fields.
SpecInput ==
  Init /\ [][ InputPasswordSignIn
             \/ InputPhoneSignIn
             \/ VerifyPhone ]_vars

OAuthOutage == \E r \in (1..MaxOAuthReqs) : OAuthStoreFailure(r)

VerifyOutage == \E r \in (1..MaxVerifyReqs) : VerifyPhoneStoreFailure(r)

\* OAuth sign-ins and verify-phone requests against a store that may fail.
SpecOutage ==
  Init /\ [][ OAuthSignIn
             \/ OAuthOutage
             \/ VerifyPhone
             \/ VerifyOutage ]_vars

\* ------------------------------------------- one request at a time
\* No request is between two of its store operations.
Quiet ==
  /\ \A r \in (1..MaxDeleteReqs) : delReq[r].pc \in {"idle", "done"}
  /\ \A r \in (1..MaxOAuthReqs) : oauthReq[r].pc \in {"idle", "done"}
  /\ \A r \in (1..MaxAuthReqs) : authReq[r].pc \in {"idle", "done"}
  /\ \A r \in (1..MaxPatchReqs) : patchReq[r].pc \in {"idle", "done"}
  /\ \A r \in (1..MaxPhoneReqs) : phoneReq[r].pc \in {"idle", "done"}

LinkSerial == Quiet /\ Link

DeleteAccountSerial ==
  \E r \in (1..MaxDeleteReqs) :
     \/ /\ Quiet /\ Arriving(delReq, r)
        /\ \E uid \in DOMAIN users \cup {NoUser}, c \in BOOLEAN, t \in BOOLEAN :
              DeleteRead(r, uid, c, t)
     \/ DeletePromote(r)
     \/ DeleteDeactivate(r)

\* Linking and deactivation, each request served to completion before the
\* next one starts.
SpecDeactivateSerial ==
  Init /\ [][ LinkSerial
             \/ DeleteAccountSerial ]_vars

AuthorizeSerial ==
  \E r \in (1..MaxAuthReqs) :
     \/ /\ Quiet /\ Arriving(authReq, r)
        /\ \E a \in SignInAttempts :
              AuthorizeLookup(r, a.email, a.password, a.code)
     \/ AuthorizePull(r)
     \/ AuthorizeReturn(r)

AuthorizeBasicSerial == Quiet /\ AuthorizeBasic

UseBackupCodeSerial ==
  \E r \in (1..MaxPatchReqs) :
     \/ /\ Quiet /\ Arriving(patchReq, r)
        /\ \E e \in PatchEmails, c \in PatchCodes : PatchRead(r, e, c)
     \/ PatchWrite(r)
     \/ PatchRespond(r)

\* Password sign-in and backup-code use, each request served to completion
\* before the next one starts.
SpecTwoFactorSerial ==
  InitTwoFactor /\ [][ AuthorizeSerial
                      \/ AuthorizeBasicSerial
                      \/ UseBackupCodeSerial ]_vars

\* ------------------------------------------------------------- claims
GroupIdsIn(us) == { us[i].groupId : i \in DOMAIN us } \ {NoGroup}

ActiveMastersIn(us, g) ==
  { i \in GroupMembers(us, g) :
      us[i].isMaster /\ us[i].accountStatus = "active" }

\* C1: in every reachable state every group has at most one active master,
\* and exactly one whenever it has an active member.
SingleMasterPerGroup ==
  \A g \in GroupIdsIn(users) :
     /\ Cardinality(ActiveMastersIn(users, g)) <= 1
     /\ ActiveMembers(users, g) # {} =>
          Cardinality(ActiveMastersIn(users, g)) = 1

\* The single-master property in the states where no request is between two
\* of its store operations: the violation outlasts the requests.
SingleMasterPerGroupAtRest == Quiet => SingleMasterPerGroup

\* The authorize call r of enhancedAuthOptions has ended (null, throw or user).
EnhancedDone(r) ==
  authReq[r].pc = "done" /\ authReq[r].options = "enhancedAuthOptions"

PasswordMatched(r) ==
  /\ authReq[r].uid # NoUser
  /\ BcryptCompare(authReq[r].password, users[authReq[r].uid].password)

TotpValid(r) ==
  TotpVerify(users[authReq[r].uid].twoFactorSecret, authReq[r].code)

\* Call r ended in success by matching a backup code: it passed the password
\* check, entered the two-factor block, failed TOTP and found the code in the
\* list.
SignedInByBackupCode(r) ==
  /\ authReq[r].pc = "done" /\ authReq[r].ret = "user"
  /\ authReq[r].options = "enhancedAuthOptions"
  /\ PasswordMatched(r)
  /\ users[authReq[r].uid].twoFactorEnabled
  /\ users[authReq[r].uid].twoFactorSecret # NoValue
  /\ ~TotpValid(r) /\ authReq[r].sawCode

\* C2: two authorize calls that both read the record while it held
\* [X, Y, Z] and both present the right password and backup code X (no valid
\* TOTP) end in exactly one success and one "Invalid 2FA code", and X has left
\* the record's list.
BackupCodeSingleUseConcurrent ==
  \A r1 \in (1..MaxAuthReqs), r2 \in (1..MaxAuthReqs) :
     ( /\ r1 # r2
       /\ EnhancedDone(r1) /\ EnhancedDone(r2)
       /\ authReq[r1].uid = 1 /\ authReq[r2].uid = 1
       /\ PasswordMatched(r1) /\ PasswordMatched(r2)
       /\ ToUpperCase(authReq[r1].code) = "X1"
       /\ ToUpperCase(authReq[r2].code) = "X1"
       /\ authReq[r1].sawCode /\ authReq[r2].sawCode )
     => /\ \/ authReq[r1].ret = "user" /\ authReq[r2].message = "Invalid 2FA code"
           \/ authReq[r2].ret = "user" /\ authReq[r1].message = "Invalid 2FA code"
        /\ SeqToSet(users[1].backupCodes) \subseteq {"Y2", "Z3"}

\* C3: a password sign-in of a record with twoFactorEnabled returns the user
\* only if the password matched and the code supplied was a valid TOTP code
\* or a backup code of the record.
SecondFactorEnforced ==
  \A r \in (1..MaxAuthReqs) :
     ( /\ authReq[r].pc = "done" /\ authReq[r].ret = "user"
       /\ users[authReq[r].uid].twoFactorEnabled )
     => /\ PasswordMatched(r)
        /\ TotpValid(r) \/ authReq[r].sawCode

\* C8: with twoFactorEnabled, the right password and no code, authorize
\* throws 2FA_REQUIRED; it returns neither null nor the user.
TwoFactorRequiredWithoutCode ==
  \A r \in (1..MaxAuthReqs) :
     ( /\ EnhancedDone(r) /\ PasswordMatched(r)
       /\ users[authReq[r].uid].twoFactorEnabled
       /\ authReq[r].code = NoValue )
     => authReq[r].ret = "throw" /\ authReq[r].message = "2FA_REQUIRED"

\* The step in which call r of enhancedAuthOptions reads the record.
EnhancedLookupStep(r) ==
  /\ authReq[r].pc = "idle" /\ authReq'[r].pc # "idle"
  /\ authReq'[r].options = "enhancedAuthOptions"

\* C9: with twoFactorEnabled and the right password, a code that is neither
\* a valid TOTP code nor (uppercased) one of the record's backup codes makes
\* authorize throw "Invalid 2FA code" and leaves the backup-code list as is.
InvalidSecondFactorRejected ==
  [][ \A r \in (1..MaxAuthReqs) :
        ( /\ EnhancedLookupStep(r)
          /\ authReq'[r].uid # NoUser
          /\ users[authReq'[r].uid].twoFactorEnabled
          /\ BcryptCompare(authReq'[r].password,
                           users[authReq'[r].uid].password)
          /\ authReq'[r].code # NoValue
          /\ ~TotpVerify(users[authReq'[r].uid].twoFactorSecret,
                         authReq'[r].code)
          /\ ~Includes(users[authReq'[r].uid].backupCodes,
                       ToUpperCase(authReq'[r].code)) )
        => /\ authReq'[r].pc = "done"
           /\ authReq'[r].message = "Invalid 2FA code"
           /\ users' = users ]_vars

\* The step in which DELETE request r promotes its transfer target.
PromoteStep(r) ==
  delReq[r].pc = "promote" /\ delReq'[r].pc = "deactivate"

\* The step in which DELETE request r, having promoted a target, soft-deletes
\* the caller and answers.
TransferCompletes(r) ==
  /\ delReq[r].pc = "deactivate" /\ delReq[r].target # NoUser
  /\ delReq'[r].pc = "done"

MastersIn(us, g) == { i \in GroupMembers(us, g) : us[i].isMaster }

RefusedWithoutTransfer ==
  [][ \A r \in (1..MaxDeleteReqs), u \in DOMAIN users :
        ( /\ delReq[r].pc = "idle" /\ delReq'[r].pc # "idle"
          /\ delReq'[r].uid = u
          /\ ~delReq'[r].transfer
          /\ users[u].isMaster /\ users[u].accountStatus = "active"
          /\ ActiveMembers(users, users[u].groupId) \ {u} # {} )
        => /\ delReq'[r].pc = "done"
           /\ delReq'[r].resp.status = 409
           /\ delReq'[r].resp.requiresGroupTransfer
           /\ delReq'[r].resp.linkedAccounts =
                ActiveMembers(users, users[u].groupId) \ {u}
           /\ users' = users ]_vars

\* A master of a group with two other active members has been refused.
RefusedListingTwoOthers ==
  \E r \in (1..MaxDeleteReqs) :
     /\ delReq[r].pc = "done" /\ delReq[r].resp.status = 409
     /\ Cardinality(delReq[r].resp.linkedAccounts) = 2
     /\ users[delReq[r].uid].isMaster
     /\ users[delReq[r].uid].accountStatus = "active"

BackupCodeSingleUse ==
  [][ /\ \A r \in (1..MaxAuthReqs) :
           (authReq[r].pc = "pull" /\ authReq'[r].pc # "pull") =>
             LET uid == authReq[r].uid
                 X == ToUpperCase(authReq[r].code)
             IN /\ ~Includes(users'[uid].backupCodes, X)
                /\ SeqToSet(users'[uid].backupCodes) =
                     SeqToSet(users[uid].backupCodes) \ {X}
      /\ \A r1 \in (1..MaxAuthReqs), r2 \in (1..MaxAuthReqs) :
           ( /\ r1 # r2
             /\ SignedInByBackupCode(r1)
             /\ EnhancedLookupStep(r2)
             /\ authReq'[r2].uid = authReq[r1].uid
             /\ BcryptCompare(authReq'[r2].password,
                              users[authReq[r1].uid].password)
             /\ ToUpperCase(authReq'[r2].code) = ToUpperCase(authReq[r1].code)
             /\ ~TotpVerify(users[authReq[r1].uid].twoFactorSecret,
                            authReq'[r2].code) )
           => /\ authReq'[r2].pc = "done"
              /\ authReq'[r2].ret = "throw"
              /\ authReq'[r2].message = "Invalid 2FA code" ]_vars

\* One sign-in succeeded on backup code X and a later one presenting X was
\* turned down.
BackupCodeReusedAndRejected ==
  \E r1 \in (1..MaxAuthReqs), r2 \in (1..MaxAuthReqs) :
     /\ r1 # r2
     /\ SignedInByBackupCode(r1)
     /\ EnhancedDone(r2) /\ PasswordMatched(r2)
     /\ authReq[r2].uid = authReq[r1].uid
     /\ ToUpperCase(authReq[r2].code) = ToUpperCase(authReq[r1].code)
     /\ authReq[r2].message = "Invalid 2FA code"
     /\ ~Includes(users[authReq[r1].uid].backupCodes,
                  ToUpperCase(authReq[r1].code))
     /\ Len(users[authReq[r1].uid].backupCodes) = 2

\* C10: a linkAccounts call that repeats the successful call before it, with
\* nothing in between, changes no document and no group id, and returns
\* success as AlreadyLinked.
MergeIdempotent ==
  [][ (linkCount' # linkCount /\ linkCall'.repeated) =>
        /\ users' = users
        /\ nextGroupId' = nextGroupId
        /\ linkCall'.result = "AlreadyLinked"
        /\ LinkSucceeded(linkCall'.result) ]_vars

\* A link that merged two documents has been repeated.
MergeRepeated ==
  /\ linkCall.repeated
  /\ linkCall.result = "AlreadyLinked"
  /\ \A i \in {linkCall.primary} \cup linkCall.secs :
        users[i].groupId = users[linkCall.primary].groupId
  /\ users[linkCall.primary].isMaster

\* A confirmed link that merged: primary and secondaries.
LinkMerged ==
  /\ linkCount' # linkCount
  /\ linkCall' # NoLinkCall
  /\ linkCall'.result = "Linked"

\* An automatic link that merged: subject and best candidate.
AutoLinkMerged ==
  /\ linkCount' # linkCount
  /\ linkCall' = NoLinkCall
  /\ autoLink'.linked

\* Every member of the group of a after the step holds the linked
\* identifiers a and b held before it.
UnionWritten(a, b) ==
  \A i \in GroupMembers(users', users'[a].groupId) :
     /\ users[a].linkedEmails \cup users[b].linkedEmails
          \subseteq users'[i].linkedEmails
     /\ users[a].linkedPhones \cup users[b].linkedPhones
          \subseteq users'[i].linkedPhones
     /\ SeqToSet(users[a].linkedProviders)
          \cup SeqToSet(users[b].linkedProviders)
          \subseteq SeqToSet(users'[i].linkedProviders)

\* C11: after a merge of A and B every member of the resulting group, the
\* earlier members of A's and B's groups included, has linkedEmails,
\* linkedPhones and linkedProviders that include those of A and of B.
UnionMonotone ==
  [][ /\ LinkMerged =>
           \A b \in linkCall'.secs :
              /\ users'[b].groupId = users'[linkCall'.primary].groupId
              /\ UnionWritten(linkCall'.primary, b)
      /\ AutoLinkMerged =>
           LET b == BestCandidate(autoLink'.candidates).userId
           IN /\ users'[b].groupId = users'[autoLink'.subject].groupId
              /\ UnionWritten(autoLink'.subject, b) ]_vars

\* A merge has reached a document that took no part in the call: it was in
\* a participant's group before, and now holds three e-mail addresses.
UnionReachedEarlierMember ==
  /\ linkCall.result = "Linked"
  /\ \E i \in GroupMembers(users, users[linkCall.primary].groupId) :
        /\ i \notin {linkCall.primary} \cup linkCall.secs
        /\ Cardinality(users[i].linkedEmails) = 3
        /\ Len(users[i].linkedProviders) = 2

\* A step that is one autoLinkIfConfident call.
AutoLinkStep == linkCount' # linkCount /\ linkCall' = NoLinkCall

OneSurvivingGroupId ==
  [][ LinkMerged =>
        LET p == linkCall'.primary
            parts == {p} \cup linkCall'.secs
            before == { users[i].groupId : i \in parts } \ {NoGroup}
            absorbed == { i \in DOMAIN users : users[i].groupId \in before }
            g == users'[p].groupId
        IN /\ g # NoGroup
           /\ \A i \in parts \cup absorbed : users'[i].groupId = g
           /\ Cardinality(before) = 1 => g \in before
           /\ (Cardinality(before) > 1 /\ users[p].groupId # NoGroup) =>
                g = users[p].groupId
           /\ before = {} =>
                /\ g = nextGroupId
                /\ g \notin GroupIdsIn(users)
                /\ nextGroupId' = nextGroupId + 1
           /\ before # {} => nextGroupId' = nextGroupId
           /\ \A i \in DOMAIN users :
                users'[i].groupId \in before => users'[i].groupId = g ]_vars

\* Two groups were merged: group 1 was absorbed into the master's group 2,
\* which now holds all four documents.
GroupsMerged ==
  /\ linkCall.result = "Linked"
  /\ nextGroupId = 3
  /\ \A i \in DOMAIN users : users[i].groupId = 2
  /\ users[linkCall.primary].isMaster

\* The step in which the signIn callback of request r completes for a
\* document a that its findOne matched exactly.
OAuthMatched(r, a) ==
  /\ oauthReq[r].pc # "done"
  /\ oauthReq'[r].pc = "done"
  /\ a # NoUser
  /\ a = IF oauthReq[r].pc = "idle" THEN oauthReq'[r].existing
         ELSE oauthReq[r].existing

\* What the callback owes a matched document a: no document added, no group
\* or master change, the provider on a's linkedProviders, a as the principal.
SameUserServed(r, a) ==
  /\ DOMAIN users' = DOMAIN users
  /\ \A i \in DOMAIN users :
       /\ users'[i].groupId = users[i].groupId
       /\ users'[i].isMaster = users[i].isMaster
  /\ nextGroupId' = nextGroupId
  /\ oauthReq'[r].provider \in SeqToSet(users'[a].linkedProviders)
  /\ oauthReq'[r].result = "signedIn"
  /\ oauthReq'[r].userId = a

\* C15: an OAuth sign-in whose e-mail exactly matches a document A creates no
\* document, changes no group, adds the provider to A.linkedProviders and
\* signs in as A.
ExactMatchIsSameUser ==
  [][ \A r \in (1..MaxOAuthReqs), a \in DOMAIN users :
        OAuthMatched(r, a) => SameUserServed(r, a) ]_vars

\* C16: a phone sign-in for a document whose phone number was never verified
\* fails with 'Phone number is not verified' and returns no user, even when
\* the service approved the code.
PhoneUnverifiedRejected ==
  \A r \in (1..MaxPhoneReqs) :
     ( /\ phoneReq[r].pc \in {"activity", "done"}
       /\ phoneReq[r].uid # NoUser
       /\ ~users[phoneReq[r].uid].phoneVerified )
     => /\ phoneReq[r].ret = "throw"
        /\ phoneReq[r].message = "Phone number is not verified"

\* C17: the phone provider returns a user only if the code-verification
\* service approved the code; a rejected code or a failed call never ends
\* in a returned user.
CodeValidityRequired ==
  \A r \in (1..MaxPhoneReqs) :
     ( /\ phoneReq[r].pc \in {"activity", "done"}
       /\ phoneReq[r].ret \in {NoValue, "user"} )
     => phoneReq[r].outcome = "approved"

\* The call ended with the error that tells the caller which provider the
\* e-mail address is registered with.
WrongProvider(req) ==
  /\ req.ret = "throw"
  /\ \E u \in DOMAIN users :
        req.message = "registered with " \o users[u].registerSource

\* C18: a password sign-in that matched a document ends in WrongProvider,
\* naming the provider, exactly when the document has no password and was
\* registered through an OAuth provider; a document without a password of
\* any other origin gets the generic failure (null).
WrongProviderExactly ==
  \A r \in (1..MaxAuthReqs) :
     (authReq[r].pc = "done" /\ authReq[r].uid # NoUser) =>
        LET user == users[authReq[r].uid]
            viaOAuth == user.registerSource \in OAuthProviders
        IN /\ WrongProvider(authReq[r]) <=>
                (user.password = NoValue /\ viaOAuth)
           /\ WrongProvider(authReq[r]) =>
                authReq[r].message = "registered with " \o user.registerSource
           /\ (user.password = NoValue /\ ~viaOAuth) =>
                authReq[r].ret = "null"

\* C19: a password sign-in that begins after the deactivation of a document
\* has completed never matches that document: it neither returns it nor
\* goes on to its second-factor or activity steps.
DeactivatedRejected ==
  [][ \A r \in (1..MaxAuthReqs), u \in DOMAIN users :
        ~ ( /\ authReq[r].pc = "idle"
            /\ users[u].accountStatus = "deactivated"
            /\ authReq'[r].pc # "idle"
            /\ authReq'[r].uid = u
            /\ authReq'[r].ret \notin {"null", "throw"} ) ]_vars

\* A call that ended in a failure of a kind its result identifies: a thrown
\* error of the credential checks, or null for a document that was found.
AuthFailure(req) ==
  /\ req.pc = "done"
  /\ req.options = "enhancedAuthOptions"
  /\ \/ req.ret = "throw" /\ req.message # "verifyCode failed"
     \/ req.ret = "null" /\ req.uid # NoUser

\* C20: every authentication failure of enhancedAuthOptions is preceded by a
\* security activity event.
FailuresLogged ==
  /\ \A r \in (1..MaxAuthReqs) : AuthFailure(authReq[r]) => authReq[r].events # << >>
  /\ \A r \in (1..MaxPhoneReqs) : AuthFailure(phoneReq[r]) => phoneReq[r].events # << >>

\* The caller u of a DELETE is a master whose group has another active
\* member.
MasterWithOthers(us, u) ==
  us[u].isMaster /\ ActiveMembers(us, us[u].groupId) \ {u} # {}

HasOtherMembers(us, u) ==
  Cardinality(GroupMembers(us, us[u].groupId)) > 1

\* C22: the session built for a request carries the groupId and
\* hasLinkedAccounts that the store holds for the principal at that request,
\* also after a merge that followed the sign-in.
SessionInSync ==
  [][ SessionRequest =>
        /\ session'.groupId = users[session'.id].groupId
        /\ session'.hasLinkedAccounts = HasOtherMembers(users, session'.id)
    ]_vars

\* C30: hasLinkedAccounts is true in a user object, and in the session made
\* from it, only if the document read belongs to a group with another
\* member; a document without groupId gives false.
LinkedFlagMeansGroup ==
  [][ /\ \A r \in DOMAIN oauthReq :
           ( /\ oauthReq[r].pc = "idle"
             /\ oauthReq'[r].principal # NoPrincipal
             /\ oauthReq'[r].principal[1].hasLinkedAccounts )
           => HasOtherMembers(users, oauthReq'[r].principal[1].id)
      /\ \A r \in (1..MaxAuthReqs) :
           ( /\ authReq[r].pc = "idle"
             /\ authReq'[r].principal # NoPrincipal
             /\ authReq'[r].principal[1].hasLinkedAccounts )
           => HasOtherMembers(users, authReq'[r].principal[1].id)
      /\ \A r \in (1..MaxPhoneReqs) :
           ( /\ phoneReq[r].pc = "idle"
             /\ phoneReq'[r].principal # NoPrincipal
             /\ phoneReq'[r].principal[1].hasLinkedAccounts )
           => HasOtherMembers(users, phoneReq'[r].principal[1].id)
      /\ session'.hasLinkedAccounts => session'.groupId # NoGroup ]_vars

\* C23: a store failure during a sign-in or a verification is reported with
\* an outcome of its own, never with the outcome a refused sign-in or a
\* wrong code gets.
StoreFailureDistinct ==
  [][ /\ \A r \in (1..MaxOAuthReqs) :
           OAuthStoreFailure(r) =>
              oauthReq'[r].result \notin {"denied", "signedIn"}
      /\ \A r \in (1..MaxVerifyReqs) :
           VerifyPhoneStoreFailure(r) =>
              verifyReq'[r].status \notin {200, 400, 404} ]_vars

\* C24: a sign-in or verify-phone request that lacks a required field is
\* answered at once (null, or 400) with no call to the users collection,
\* no write and no activity event.
MalformedRejectedFirst ==
  [][ /\ \A r \in (1..MaxAuthReqs), e \in InputEmails, p \in InputPasswords :
           ((e = NoValue \/ p = NoValue) /\ AuthorizeLookup(r, e, p, NoValue))
           => /\ authReq'[r].pc = "done"
              /\ authReq'[r].ret = "null"
              /\ authReq'[r].storeReads = 0
              /\ authReq'[r].events = << >>
              /\ users' = users
      /\ \A r \in (1..MaxPhoneReqs), n \in InputPhones, c \in PhoneCodes :
           ((n = NoValue \/ c = NoValue)
              /\ PhoneAuthorizeLookup(r, n, c, "approved"))
           => /\ phoneReq'[r].pc = "done"
              /\ phoneReq'[r].ret = "null"
              /\ phoneReq'[r].storeReads = 0
              /\ phoneReq'[r].events = << >>
              /\ users' = users
      /\ \A r \in (1..MaxVerifyReqs), n \in VerifyNumbers, c \in PhoneCodes,
            v \in VerifyServices, o \in VerifyOutcomes :
           ((n = NoValue \/ c = NoValue) /\ VerifyPhoneCheck(r, n, c, v, o))
           => /\ verifyReq'[r].pc = "done"
              /\ verifyReq'[r].status = 400
              /\ verifyReq'[r].storeReads = 0
              /\ verifyReq'[r].storeWrites = 0
              /\ verifyReq'[r].outcome = NoValue
              /\ users' = users ]_vars

\* Requests of all three kinds were turned away for a missing field while
\* well-formed ones went to the store.
MalformedTurnedAway ==
  /\ \E r \in (1..MaxAuthReqs) :
        authReq[r].pc = "done" /\ authReq[r].ret = "null"
        /\ authReq[r].storeReads = 0
  /\ \E r \in (1..MaxAuthReqs) : authReq[r].storeReads > 0
  /\ \E r \in (1..MaxPhoneReqs) :
        phoneReq[r].pc = "done" /\ phoneReq[r].ret = "null"
        /\ phoneReq[r].storeReads = 0
  /\ \E r \in (1..MaxVerifyReqs) :
        verifyReq[r].pc = "done" /\ verifyReq[r].status = 400
        /\ verifyReq[r].outcome = NoValue
  /\ \E r \in (1..MaxVerifyReqs) : verifyReq[r].storeWrites > 0

\* C26: verify-phone sets phoneVerified on a document only when the code
\* check succeeded for the phoneNumber of that document, and a request
\* whose code was not accepted modifies no document.
VerifiedOnlyAfterProof ==
  [][ /\ \A i \in DOMAIN users :
           (users'[i].phoneVerified /\ ~users[i].phoneVerified) =>
              \E r \in (1..MaxVerifyReqs) :
                 /\ verifyReq[r].pc = "update"
                 /\ verifyReq'[r].pc = "done"
                 /\ verifyReq[r].outcome = "approved"
                 /\ verifyReq[r].phoneNumber = users[i].phoneNumber
      /\ \A r \in (1..MaxVerifyReqs) :
           ( /\ verifyReq[r].pc # "done"
             /\ verifyReq'[r].pc = "done"
             /\ verifyReq'[r].outcome # "approved" )
           => users' = users ]_vars

\* A phone number was verified by an approved code after a request with a
\* rejected code for the same number had ended.
VerifiedAfterRejection ==
  /\ \E r \in (1..MaxVerifyReqs) :
        /\ verifyReq[r].pc = "done" /\ verifyReq[r].status = 400
        /\ verifyReq[r].outcome = "rejected"
        /\ verifyReq[r].phoneNumber = "+15551234567"
  /\ \E r \in (1..MaxVerifyReqs) :
        /\ verifyReq[r].pc = "done" /\ verifyReq[r].status = 200
        /\ verifyReq[r].phoneNumber = "+15551234567"
  /\ users[3].phoneVerified

BackupCodeRemoved(i) ==
  \E k \in 1..Len(users[i].backupCodes) :
     ~Includes(users'[i].backupCodes, users[i].backupCodes[k])

\* C27: a backup code leaves a document's list only in a step of an
\* authorize call that verified the document's password in the same attempt.
BackupCodeNeedsPassword ==
  [][ \A i \in DOMAIN users :
        BackupCodeRemoved(i)
        => \E r \in (1..MaxAuthReqs) :
              /\ authReq[r].pc = "pull"
              /\ authReq[r].uid = i
              /\ users[i].password # NoValue
              /\ BcryptCompare(authReq[r].password, users[i].password) ]_vars

\* C28: once a regeneration of a document's backup codes has completed, the
\* document's list holds newly generated codes only.
OnlyNewCodesAfterRegeneration ==
  \A r \in (1..MaxRegenReqs) :
     regenReq[r].pc = "done" /\ regenReq[r].status = 200
     => \A k \in 1..Len(users[regenReq[r].uid].backupCodes) :
           Includes(NewBackupCodes, users[regenReq[r].uid].backupCodes[k])

\* The number of times a provider occurs in a list of providers.
Occurrences(providers, p) ==
  Cardinality({ k \in 1..Len(providers) : providers[k] = p })

\* C29: when two OAuth sign-ins with different providers have both completed
\* as the same document, the document's linkedProviders holds both
\* providers, each exactly once.
BothProvidersKept ==
  \A r1, r2 \in DOMAIN oauthReq :
     /\ r1 # r2
     /\ oauthReq[r1].pc = "done" /\ oauthReq[r2].pc = "done"
     /\ oauthReq[r1].result = "signedIn" /\ oauthReq[r2].result = "signedIn"
     /\ oauthReq[r1].userId # NoUser
     /\ oauthReq[r1].userId = oauthReq[r2].userId
     /\ oauthReq[r1].provider # oauthReq[r2].provider
     => /\ Occurrences(users[oauthReq[r1].userId].linkedProviders,
                       oauthReq[r1].provider) = 1
        /\ Occurrences(users[oauthReq[r1].userId].linkedProviders,
                       oauthReq[r2].provider) = 1

====
